---- MODULE Spec2Model ----
(***************************************************************************)
(* memoryman: the SQLite persistence backend (storage/sqlite_backend.py)   *)
(* and the record codec (utils/serialization.py).                          *)
(*                                                                         *)
(* The database is modelled as the connection sees it (memories,           *)
(* memory_data: committed rows plus the changes of the open transaction)   *)
(* together with the last committed image (committed).  memory_data is the *)
(* table in rowid order: AUTOINCREMENT gives every new row an id above     *)
(* every id used before, so a new row is appended and the position of a    *)
(* row in the sequence stands for its id.                                  *)
(***************************************************************************)
EXTENDS Integers, Sequences, FiniteSets, TLC

\* ------------------------------------------------------------------ bounds
MaxClock == 1
MaxRows == 2
\* the store, delete and delete_memory calls the threads make in a run of the
\* threaded specification
MaxCalls == 2
\* the longest record list given to the retrieval engine
MaxItems == 3
\* the longest sequence inside a record given to the codec
MaxElems == 2

Namespaces == {"x", "y"}
Keys == {"a", "b"}
\* the (namespace, key) pairs the write calls are made with
Slots == {<<"x", "a">>, <<"x", "b">>, <<"y", "a">>}

\* ------------------------------------------------- Python values (tagged)
PyStr(s) == [t |-> "str", v |-> s]
PyInt(n) == [t |-> "int", v |-> n]
PyBool(b) == [t |-> "bool", v |-> b]
PyNone == [t |-> "NoneType", v |-> "None"]
PyList(s) == [t |-> "list", v |-> s]
PyTuple(s) == [t |-> "tuple", v |-> s]
PyDict(f) == [t |-> "dict", v |-> f]
\* a value json has no encoding for (a datetime); v is its str() text
PyObject(s) == [t |-> "object", v |-> s]
\* a container that holds itself: json.dumps raises ValueError on it
PyCyclic == [t |-> "cyclic", v |-> "[...]"]

\* --------------------------------------------------- JSON text (its tree)
JString(s) == [j |-> "string", v |-> s]
JNumber(n) == [j |-> "number", v |-> n]
JBool(b) == [j |-> "bool", v |-> b]
JNull == [j |-> "null", v |-> "null"]
JArray(s) == [j |-> "array", v |-> s]
JObject(f) == [j |-> "object", v |-> f]

\* json.dumps raises on this value (circular reference), default=str or not
RECURSIVE DumpsRaises(_)
DumpsRaises(x) ==
    CASE x.t = "cyclic" -> TRUE
      [] x.t \in {"list", "tuple"} -> \E i \in DOMAIN x.v : DumpsRaises(x.v[i])
      [] x.t = "dict" -> \E k \in DOMAIN x.v : DumpsRaises(x.v[k])
      [] OTHER -> FALSE

\* json.dumps's default hook: default=str turns an unsupported value into
\* its str() text, which is then encoded as a JSON string
DumpsDefault(x) == JString(x.v)

\* json.dumps(x, default=str) on a value it does not raise on
RECURSIVE Dumps(_)
Dumps(x) ==
    CASE x.t = "str" -> JString(x.v)
      [] x.t = "int" -> JNumber(x.v)
      [] x.t = "bool" -> JBool(x.v)
      [] x.t = "NoneType" -> JNull
      [] x.t \in {"list", "tuple"} -> JArray([i \in DOMAIN x.v |-> Dumps(x.v[i])])
      [] x.t = "dict" -> JObject([k \in DOMAIN x.v |-> Dumps(x.v[k])])
      [] OTHER -> DumpsDefault(x)

\* mutant: arrays are decoded back to front
RECURSIVE LoadsReversed(_)
LoadsReversed(y) ==
    CASE y.j = "string" -> PyStr(y.v)
      [] y.j = "number" -> PyInt(y.v)
      [] y.j = "bool" -> PyBool(y.v)
      [] y.j = "null" -> PyNone
      [] y.j = "array" ->
            PyList([i \in DOMAIN y.v |-> LoadsReversed(y.v[Len(y.v) + 1 - i])])
      [] y.j = "object" -> PyDict([k \in DOMAIN y.v |-> LoadsReversed(y.v[k])])

\* json.loads
RECURSIVE Loads(_)
Loads(y) ==
    CASE y.j = "string" -> PyStr(y.v)
      [] y.j = "number" -> PyInt(y.v)
      [] y.j = "bool" -> PyBool(y.v)
      [] y.j = "null" -> PyNone
      [] y.j = "array" -> PyList([i \in DOMAIN y.v |-> Loads(y.v[i])])
      [] y.j = "object" -> PyDict([k \in DOMAIN y.v |-> Loads(y.v[k])])

\* a data column that is not JSON text (written by another program, or damaged)
Malformed == [j |-> "malformed", v |-> "{bad"]

\* json.loads raises JSONDecodeError on this text
LoadsRaises(y) == y.j = "malformed"

serialize_data(data) == Dumps(data)

deserialize_data(data_str) == Loads(data_str)

\* ------------------------------------------------------- inputs of the calls
r1 == PyDict([role |-> PyStr("user"), content |-> PyStr("Hello")])
r2 == PyDict([role |-> PyStr("assistant"), timestamp |-> PyStr("2020-01-01T00:00:00"),
              tags |-> PyList(<<PyStr("t"), PyInt(1)>>)])
\* a record with a value json does not support: stored as its str() text
rObj == PyDict([content |-> PyObject("2024-01-01 00:00:00")])
\* a record json.dumps raises on
rCyc == PyDict([content |-> PyCyclic])
Records == {r1, r2, rObj, rCyc}

\* filter maps given to query
Filters == {<<>>, [role |-> PyStr("user")],
            [role |-> PyStr("user"), content |-> PyStr("Hello")],
            [tags |-> PyNone]}

ProgrammingError == "sqlite3.ProgrammingError"
OperationalError == "sqlite3.OperationalError"
ValueError == "ValueError"
JSONDecodeError == "json.JSONDecodeError"
TypeError == "TypeError"
AttributeError == "AttributeError"

VARIABLES
    conn,            \* self.conn: "open" | "closed"
    now,             \* CURRENT_TIMESTAMP, in whole seconds
    memories,        \* table memories as the connection sees it: its memory_id column
    memory_data,     \* table memory_data as the connection sees it, in rowid order
    in_transaction,  \* conn.in_transaction: a DML statement ran and is not committed
    committed,       \* the last committed image of both tables
    given,           \* history: the data of the last successful store of (ns, key), PyNone once deleted
    last,            \* the last call: its name, arguments and outcome
    \* calls made from several threads on the one backend, statement by statement
    pc,              \* per thread: the statement its call runs next, "idle" between calls
    call,            \* per thread: the call in progress (or the last one): op, ns, key, data
    result,          \* per thread: the outcome of its last finished call
    sampled,         \* per thread: the values conn.in_transaction had since its last statement
    start,           \* history, per thread: the tables and the committed image when its call began
    overlap,         \* history, per thread: what other threads did during its call
    ncalls,          \* the number of calls the threads have begun
    \* the retrieval engine (core/retrieval.py), pure functions on record lists
    items,           \* the record list given to the engine
    answer           \* the last engine call: its name, arguments and outcome

vars == <<conn, now, memories, memory_data, in_transaction, committed, given, last>>
tvars == <<pc, call, result, sampled, start, overlap, ncalls>>
rvars == <<items, answer>>
allvars == <<vars, tvars, rvars>>

Call(op, ns, key, exc, ret) == [op |-> op, ns |-> ns, key |-> key, exc |-> exc, ret |-> ret]
Returned(op, ns, key, ret) == Call(op, ns, key, "", ret)
Raised(op, exc) == Call(op, "", "", exc, PyNone)

\* ----------------------------------------------------------- SQL statements
\* mutant: rows are matched by key alone
MatchesKeyOnly(row, ns, k) == row.key = k

\* WHERE memory_id = ? AND key = ?, and the conflict target (memory_id, key)
Matches(row, ns, k) == row.memory_id = ns /\ row.key = k
HasRow(rows, ns, k) == \E i \in DOMAIN rows : Matches(rows[i], ns, k)
RowsOf(rows, ns) == SelectSeq(rows, LAMBDA row : row.memory_id = ns)

\* INSERT OR IGNORE INTO memories (memory_id) VALUES (?)
InsertOrIgnoreMemory(mems, ns) == mems \cup {ns}

\* mutant: ON CONFLICT DO NOTHING, the first payload is kept
UpsertIgnore(rows, ns, k, payload, t) ==
    IF HasRow(rows, ns, k)
    THEN rows
    ELSE Append(rows, [memory_id |-> ns, key |-> k, data |-> payload,
                       created_at |-> t, updated_at |-> t])

\* mutant: no UNIQUE(memory_id, key), every store inserts a row
UpsertAppend(rows, ns, k, payload, t) ==
    Append(rows, [memory_id |-> ns, key |-> k, data |-> payload,
                  created_at |-> t, updated_at |-> t])

\* mutant: INSERT OR REPLACE, the old row is deleted and a new one inserted
UpsertReplace(rows, ns, k, payload, t) ==
    Append(SelectSeq(rows, LAMBDA row : ~(row.memory_id = ns /\ row.key = k)),
           [memory_id |-> ns, key |-> k, data |-> payload,
            created_at |-> t, updated_at |-> t])

\* INSERT INTO memory_data ... ON CONFLICT(memory_id, key) DO UPDATE SET data, updated_at
Upsert(rows, ns, k, payload, t) ==
    IF HasRow(rows, ns, k)
    THEN [i \in DOMAIN rows |->
            IF Matches(rows[i], ns, k)
            THEN [rows[i] EXCEPT !.data = payload, !.updated_at = t]
            ELSE rows[i]]
    ELSE Append(rows, [memory_id |-> ns, key |-> k, data |-> payload,
                       created_at |-> t, updated_at |-> t])

\* mutant: the WHERE clause names the namespace only
DeleteRowAnyKey(rows, ns, k) == SelectSeq(rows, LAMBDA row : row.memory_id # ns)

\* DELETE FROM memory_data WHERE memory_id = ? AND key = ?
DeleteRow(rows, ns, k) == SelectSeq(rows, LAMBDA row : ~Matches(row, ns, k))

\* cursor.rowcount of that DELETE
RowCount(rows, ns, k) == Cardinality({i \in DOMAIN rows : Matches(rows[i], ns, k)})

\* mutant: return cursor.rowcount >= 0
DeleteResultAlways(rowcount) == rowcount >= 0

\* return cursor.rowcount > 0
DeleteResult(rowcount) == rowcount > 0

\* DELETE FROM memory_data WHERE memory_id = ?
DeleteRowsOf(rows, ns) == SelectSeq(rows, LAMBDA row : row.memory_id # ns)

\* mutant: the tracking entry is left behind
DeleteMemoryEntryKept(mems, ns) == mems

\* DELETE FROM memories WHERE memory_id = ?
DeleteMemoryEntry(mems, ns) == mems \ {ns}

\* mutant: a cursor is handed out whatever the state of the connection
CursorNeverRaises == FALSE

\* conn.cursor() raises sqlite3.ProgrammingError on a closed connection
CursorRaises == conn = "closed"

Image(mems, rows) == [memories |-> mems, memory_data |-> rows]

\* mutant: commit() that writes nothing to the database file
ConnCommitLost(mems, rows) ==
    /\ committed' = committed
    /\ in_transaction' = TRUE

\* self.conn.commit(): the tables as the connection sees them become the
\* committed image and no transaction is left open
ConnCommit(mems, rows) ==
    /\ committed' = Image(mems, rows)
    /\ in_transaction' = FALSE

\* the shape of the state
TypeOK ==
    /\ conn \in {"open", "closed"}
    /\ now \in 0..MaxClock
    /\ memories \subseteq Namespaces
    /\ \A i \in DOMAIN memory_data :
        /\ DOMAIN memory_data[i] = {"memory_id", "key", "data", "created_at", "updated_at"}
        /\ memory_data[i].memory_id \in Namespaces
        /\ memory_data[i].key \in Keys
        /\ memory_data[i].created_at \in 0..MaxClock
        /\ memory_data[i].updated_at \in 0..MaxClock
    /\ in_transaction \in BOOLEAN
    /\ committed.memories \subseteq memories
    /\ committed.memory_data = memory_data
    /\ in_transaction = FALSE => committed = Image(memories, memory_data)
    /\ DOMAIN given = Namespaces \X Keys
    /\ last.op \in {"__init__", "store", "delete", "delete_memory", "close", "__del__"}
    /\ last.exc \in {"", ProgrammingError, ValueError}

\* the threads that share the backend instance
Threads == {"t1", "t2"}

NoCall == [op |-> "", ns |-> "", key |-> "", data |-> PyNone, rowcount |-> 0]

\* SQLiteStorage(db_path) on a new file: the connection is open, both tables
\* are created empty and committed
InitBackend ==
    /\ conn = "open"
    /\ now = 0
    /\ memories = {}
    /\ memory_data = <<>>
    /\ in_transaction = FALSE
    /\ committed = Image({}, <<>>)
    /\ given = [p \in Namespaces \X Keys |-> PyNone]
    /\ last = Returned("__init__", "", "", PyNone)

\* no thread has called the backend yet
InitThreads ==
    /\ pc = [t \in Threads |-> "idle"]
    /\ call = [t \in Threads |-> NoCall]
    /\ result = [t \in Threads |-> [exc |-> "", ret |-> PyNone]]
    /\ sampled = [t \in Threads |-> {FALSE}]
    /\ start = [t \in Threads |-> [view |-> Image({}, <<>>), disk |-> Image({}, <<>>)]]
    /\ overlap = [t \in Threads |-> {}]
    /\ ncalls = 0

\* the retrieval engine has not been called
InitEngine ==
    /\ items = <<>>
    /\ answer = [op |-> "", ret |-> PyNone]

Init ==
    /\ InitBackend
    /\ InitThreads
    /\ InitEngine

\* the wall clock advances between calls
Tick ==
    /\ now < MaxClock
    /\ now' = now + 1
    /\ UNCHANGED <<conn, memories, memory_data, in_transaction, committed, given, last>>
    /\ UNCHANGED <<tvars, rvars>>

Store(ns, k, data) ==
    /\ CursorRaises \/ HasRow(memory_data, ns, k) \/ Len(memory_data) < MaxRows
    /\ IF CursorRaises
       THEN /\ last' = Raised("store", ProgrammingError)
            /\ UNCHANGED <<conn, now, memories, memory_data, in_transaction, committed, given>>
       ELSE LET mems == InsertOrIgnoreMemory(memories, ns)
            IN  IF DumpsRaises(data)
                THEN \* serialize_data raises after the first INSERT: nothing is committed
                     /\ memories' = mems
                     /\ in_transaction' = TRUE
                     /\ last' = Raised("store", ValueError)
                     /\ UNCHANGED <<conn, now, memory_data, committed, given>>
                ELSE LET rows == Upsert(memory_data, ns, k, serialize_data(data), now)
                     IN  /\ memories' = mems
                         /\ memory_data' = rows
                         /\ ConnCommit(mems, rows)
                         /\ given' = [given EXCEPT ![<<ns, k>>] = data]
                         /\ last' = Returned("store", ns, k, PyNone)
                         /\ UNCHANGED <<conn, now>>
    /\ UNCHANGED <<tvars, rvars>>

Delete(ns, k) ==
    /\ IF CursorRaises
       THEN /\ last' = Raised("delete", ProgrammingError)
            /\ UNCHANGED <<conn, now, memories, memory_data, in_transaction, committed, given>>
       ELSE LET rows == DeleteRow(memory_data, ns, k)
            IN  /\ memory_data' = rows
                /\ ConnCommit(memories, rows)
                /\ given' = [given EXCEPT ![<<ns, k>>] = PyNone]
                /\ last' = Returned("delete", ns, k, PyBool(DeleteResult(RowCount(memory_data, ns, k))))
                /\ UNCHANGED <<conn, now, memories>>
    /\ UNCHANGED <<tvars, rvars>>

DeleteMemory(ns) ==
    /\ IF CursorRaises
       THEN /\ last' = Raised("delete_memory", ProgrammingError)
            /\ UNCHANGED <<conn, now, memories, memory_data, in_transaction, committed, given>>
       ELSE LET rows == DeleteRowsOf(memory_data, ns)
                mems == DeleteMemoryEntry(memories, ns)
            IN  /\ memory_data' = rows
                /\ memories' = mems
                /\ ConnCommit(mems, rows)
                /\ given' = [p \in DOMAIN given |-> IF p[1] = ns THEN PyNone ELSE given[p]]
                /\ last' = Returned("delete_memory", ns, "", PyNone)
                /\ UNCHANGED <<conn, now>>
    /\ UNCHANGED <<tvars, rvars>>

\* mutant: close() ends the transaction and leaves the connection as it is
ConnCloseKeepsOpen ==
    /\ conn' = conn
    /\ memories' = committed.memories
    /\ memory_data' = committed.memory_data
    /\ in_transaction' = FALSE
    /\ UNCHANGED <<now, committed>>

\* sqlite3's Connection.close(): an open transaction is rolled back, and
\* closing a closed connection does nothing
ConnClose ==
    /\ conn' = "closed"
    /\ memories' = committed.memories
    /\ memory_data' = committed.memory_data
    /\ in_transaction' = FALSE
    /\ UNCHANGED <<now, committed>>

Close ==
    /\ ConnClose
    /\ UNCHANGED given
    /\ last' = Returned("close", "", "", PyNone)
    /\ UNCHANGED <<tvars, rvars>>

\* __del__: close() inside try/except
Del ==
    /\ ConnClose
    /\ UNCHANGED given
    /\ last' = Returned("__del__", "", "", PyNone)
    /\ UNCHANGED <<tvars, rvars>>

\* ------------------------------------------------------------------- reads
\* retrieve, query, list_keys and list_memories run one SELECT and no DML:
\* each is a function of the state, given as the outcome of a call made in
\* that state (the set of possible outcomes where SQL leaves the order open).
Outcome(exc, ret) == [exc |-> exc, ret |-> ret]

\* the sequences that hold every element of S once
RECURSIVE Orderings(_)
Orderings(S) ==
    IF S = {}
    THEN {<<>>}
    ELSE UNION {{<<x>> \o s : s \in Orderings(S \ {x})} : x \in S}

\* dict.get(field): None when the field is missing
Get(item, field) == IF field \in DOMAIN item.v THEN item.v[field] ELSE PyNone

AsInt(x) == IF x.t = "bool" THEN (IF x.v THEN 1 ELSE 0) ELSE x.v

\* Python's ==: bool is an int (True == 1), otherwise equal type and value
PyEq(a, b) ==
    IF a.t \in {"int", "bool"} /\ b.t \in {"int", "bool"}
    THEN AsInt(a) = AsInt(b)
    ELSE a = b

\* SELECT data FROM memory_data WHERE memory_id = ? AND key = ?; fetchone()
retrieve(ns, k) ==
    IF CursorRaises
    THEN Outcome(ProgrammingError, PyNone)
    ELSE IF HasRow(memory_data, ns, k)
         THEN LET i == CHOOSE i \in DOMAIN memory_data : Matches(memory_data[i], ns, k)
              IN  IF LoadsRaises(memory_data[i].data)
                  THEN Outcome(JSONDecodeError, PyNone)
                  ELSE Outcome("", deserialize_data(memory_data[i].data))
         ELSE Outcome("", PyNone)

\* for field, value in filters.items(): keep the items with item.get(field) == value
PassesFilters(item, filters) ==
    \A field \in DOMAIN filters : PyEq(Get(item, field), filters[field])

\* SELECT data FROM memory_data WHERE memory_id = ? (no ORDER BY), then the filters
query(ns, filters) ==
    IF CursorRaises
    THEN {Outcome(ProgrammingError, PyNone)}
    ELSE LET idx == {i \in DOMAIN memory_data : memory_data[i].memory_id = ns}
         IN  IF \E i \in idx : LoadsRaises(memory_data[i].data)
             THEN \* line 106 decodes every row of ns before any filter is applied
                  {Outcome(JSONDecodeError, PyNone)}
             ELSE {Outcome("", PyList(
                      SelectSeq([n \in DOMAIN o |-> deserialize_data(memory_data[o[n]].data)],
                                LAMBDA item : PassesFilters(item, filters))))
                   : o \in Orderings(idx)}

\* SELECT key FROM memory_data WHERE memory_id = ? ORDER BY created_at:
\* rows with equal created_at come in an order SQL does not define
list_keys(ns) ==
    IF CursorRaises
    THEN {Outcome(ProgrammingError, PyNone)}
    ELSE LET idx == {i \in DOMAIN memory_data : memory_data[i].memory_id = ns}
             sorted == {o \in Orderings(idx) :
                          \A m, n \in DOMAIN o :
                              m < n => memory_data[o[m]].created_at <= memory_data[o[n]].created_at}
         IN  {Outcome("", PyList([n \in DOMAIN o |-> PyStr(memory_data[o[n]].key)])) : o \in sorted}

\* SELECT memory_id FROM memories
list_memories ==
    IF CursorRaises
    THEN {Outcome(ProgrammingError, PyNone)}
    ELSE {Outcome("", PyList([n \in DOMAIN o |-> PyStr(o[n])])) : o \in Orderings(memories)}

Next ==
    \/ Tick
    \/ \E p \in Slots, data \in Records : Store(p[1], p[2], data)
    \/ \E p \in Slots : Delete(p[1], p[2])
    \/ \E ns \in Namespaces : DeleteMemory(ns)
    \/ Close
    \/ Del

Spec == Init /\ [][Next]_allvars

\* the environment: the data column of a stored row is overwritten with text
\* that is not JSON, in the database file (by another program writing to the
\* file, or by damage to it)
Corrupt ==
    /\ \E i \in DOMAIN memory_data :
          /\ ~LoadsRaises(memory_data[i].data)
          /\ memory_data' = [memory_data EXCEPT ![i].data = Malformed]
    /\ committed' = [committed EXCEPT !.memory_data = memory_data']
    /\ UNCHANGED <<conn, now, memories, in_transaction, given, last>>
    /\ UNCHANGED <<tvars, rvars>>

NextCorrupt ==
    \/ Next
    \/ Corrupt

\* the backend on a database file whose rows may be damaged
SpecCorrupt == Init /\ [][NextCorrupt]_allvars

\* ------------------------------------------------- the codec on all kinds
\* records built from every value kind json encodes: str, int, bool, None,
\* list and tuple (both encoded as an array), and a nested dict
CodecScalars == {PyStr("a"), PyInt(0), PyInt(1), PyBool(FALSE), PyBool(TRUE), PyNone}
CodecSequences ==
    UNION {{PyList(s), PyTuple(s)} :
              s \in UNION {[1..n -> CodecScalars] : n \in 0..MaxElems}}
CodecMappings == {PyDict([k |-> v]) : v \in CodecScalars \cup CodecSequences}
CodecRecords ==
    {PyDict([content |-> v]) : v \in CodecScalars \cup CodecSequences \cup CodecMappings}

NextCodec ==
    \/ \E data \in CodecRecords : Store("x", "a", data)
    \/ Delete("x", "a")

\* store and delete of one key, with records of every kind
SpecCodec == Init /\ [][NextCodec]_allvars

\* ------------------------------------------- calls from several threads
\* One sqlite3 connection (check_same_thread=False) is shared by the threads
\* and the backend takes no lock: a call is a sequence of statements, each
\* atomic (SQLite serialises the statements of a connection), and statements
\* of different threads interleave inside the one transaction of the
\* connection.  The sqlite3 module opens that transaction itself: before a
\* DML statement it issues BEGIN when it finds none open, and commit() issues
\* COMMIT when it finds one open; the finding and the statement are not one
\* step, so a thread acts on a value conn.in_transaction had at some moment
\* since its previous statement.
NoStart == [view |-> Image({}, <<>>), disk |-> Image({}, <<>>)]

StoreCall(ns, k, data) == [op |-> "store", ns |-> ns, key |-> k, data |-> data, rowcount |-> 0]
DeleteCall(ns, k) == [op |-> "delete", ns |-> ns, key |-> k, data |-> PyNone, rowcount |-> 0]
DeleteMemoryCall(ns) == [op |-> "delete_memory", ns |-> ns, key |-> "", data |-> PyNone, rowcount |-> 0]

\* the write calls the threads make
Calls ==
    {StoreCall(p[1], p[2], data) : p \in Slots, data \in Records}
        \cup {DeleteCall(p[1], p[2]) : p \in Slots}
        \cup {DeleteMemoryCall(ns) : ns \in Namespaces}

\* the first statement of a call
FirstStatement(c) ==
    CASE c.op = "store" -> "store_insert"
      [] c.op = "delete" -> "delete_delete"
      [] c.op = "delete_memory" -> "delete_memory_rows"

InFlight(t) == pc[t] # "idle"

\* what a statement of thread t leaves for the threads: t has seen the
\* transaction state the statement left, every other thread in a call may
\* have seen it too, and has had t work on namespace ns during its call
Seen(t, ns) ==
    /\ sampled' = [u \in Threads |->
                      IF u = t THEN {in_transaction'}
                      ELSE IF InFlight(u) THEN sampled[u] \cup {in_transaction'}
                      ELSE sampled[u]]
    /\ overlap' = [u \in Threads |->
                      IF u # t /\ InFlight(u) THEN overlap[u] \cup {ns} ELSE overlap[u]]

\* the call of thread t ends with this outcome
Finish(t, exc, ret) ==
    /\ pc' = [pc EXCEPT ![t] = "idle"]
    /\ result' = [result EXCEPT ![t] = [exc |-> exc, ret |-> ret]]
    /\ start' = [start EXCEPT ![t] = NoStart]

\* the call goes on with its next statement
Goto(t, next) ==
    /\ pc' = [pc EXCEPT ![t] = next]
    /\ UNCHANGED <<result, start>>

\* thread t calls store, delete or delete_memory
Begin(t, c) ==
    /\ pc[t] = "idle"
    /\ ncalls < MaxCalls
    /\ c.op = "store" =>
          CursorRaises \/ HasRow(memory_data, c.ns, c.key) \/ Len(memory_data) < MaxRows
    /\ ncalls' = ncalls + 1
    /\ pc' = [pc EXCEPT ![t] = FirstStatement(c)]
    /\ call' = [call EXCEPT ![t] = c]
    /\ start' = [start EXCEPT ![t] = [view |-> Image(memories, memory_data), disk |-> committed]]
    /\ overlap' = [overlap EXCEPT ![t] = {}]
    /\ sampled' = [sampled EXCEPT ![t] = {in_transaction}]
    /\ UNCHANGED <<vars, result, rvars>>

\* mutant: the connection is in autocommit mode (isolation_level=None), every
\* statement is committed on its own
ExecuteAutocommit(t, mems, rows, next) ==
    IF CursorRaises
    THEN /\ Finish(t, ProgrammingError, PyNone)
         /\ UNCHANGED <<conn, memories, memory_data, in_transaction, committed>>
    ELSE /\ memories' = mems
         /\ memory_data' = rows
         /\ committed' = Image(mems, rows)
         /\ in_transaction' = FALSE
         /\ Goto(t, next)
         /\ UNCHANGED conn

\* cursor.execute of a DML statement by thread t that turns the tables into
\* (mems, rows): it raises on a closed connection; BEGIN raises when t found
\* no transaction open and another thread has opened one since; the statement
\* commits by itself when t found a transaction open and it has ended since
Execute(t, mems, rows, next) ==
    \E found \in sampled[t] :
        IF CursorRaises
        THEN /\ Finish(t, ProgrammingError, PyNone)
             /\ UNCHANGED <<conn, memories, memory_data, in_transaction, committed>>
        ELSE IF ~found /\ in_transaction
        THEN /\ Finish(t, OperationalError, PyNone)
             /\ UNCHANGED <<conn, memories, memory_data, in_transaction, committed>>
        ELSE /\ memories' = mems
             /\ memory_data' = rows
             /\ IF found /\ ~in_transaction
                THEN ConnCommit(mems, rows)
                ELSE in_transaction' = TRUE /\ UNCHANGED committed
             /\ Goto(t, next)
             /\ UNCHANGED conn

\* self.conn.commit() by thread t, then return ret: it raises on a closed
\* connection, issues COMMIT when t found a transaction open (which raises
\* when that transaction has ended since) and does nothing when t found none
CommitAndReturn(t, ret) ==
    \E found \in sampled[t] :
        IF CursorRaises
        THEN /\ Finish(t, ProgrammingError, PyNone)
             /\ UNCHANGED <<conn, memories, memory_data, in_transaction, committed>>
        ELSE IF found /\ in_transaction
        THEN /\ ConnCommit(memories, memory_data)
             /\ Finish(t, "", ret)
             /\ UNCHANGED <<conn, memories, memory_data>>
        ELSE IF found
        THEN /\ Finish(t, OperationalError, PyNone)
             /\ UNCHANGED <<conn, memories, memory_data, in_transaction, committed>>
        ELSE /\ Finish(t, "", ret)
             /\ UNCHANGED <<conn, memories, memory_data, in_transaction, committed>>

\* store, lines 64-67: cursor(), INSERT OR IGNORE INTO memories
StoreInsert(t) ==
    /\ pc[t] = "store_insert"
    /\ Execute(t, InsertOrIgnoreMemory(memories, call[t].ns), memory_data, "store_upsert")
    /\ Seen(t, call[t].ns)
    /\ UNCHANGED <<now, given, last, call, ncalls, rvars>>

\* store, lines 70-79: serialize_data, then the upsert
StoreUpsert(t) ==
    /\ pc[t] = "store_upsert"
    /\ IF DumpsRaises(call[t].data)
       THEN /\ Finish(t, ValueError, PyNone)
            /\ UNCHANGED <<conn, memories, memory_data, in_transaction, committed>>
       ELSE Execute(t, memories,
                    Upsert(memory_data, call[t].ns, call[t].key, serialize_data(call[t].data), now),
                    "store_commit")
    /\ Seen(t, call[t].ns)
    /\ UNCHANGED <<now, given, last, call, ncalls, rvars>>

\* store, line 81
StoreCommit(t) ==
    /\ pc[t] = "store_commit"
    /\ CommitAndReturn(t, PyNone)
    /\ Seen(t, call[t].ns)
    /\ UNCHANGED <<now, given, last, call, ncalls, rvars>>

\* delete, lines 117-121: cursor.rowcount is the number of rows the DELETE removed
DeleteExecute(t) ==
    /\ pc[t] = "delete_delete"
    /\ Execute(t, memories, DeleteRow(memory_data, call[t].ns, call[t].key), "delete_commit")
    /\ call' = [call EXCEPT ![t].rowcount =
                   IF pc'[t] = "delete_commit"
                   THEN RowCount(memory_data, call[t].ns, call[t].key) ELSE 0]
    /\ Seen(t, call[t].ns)
    /\ UNCHANGED <<now, given, last, ncalls, rvars>>

\* delete, lines 122-123
DeleteCommit(t) ==
    /\ pc[t] = "delete_commit"
    /\ CommitAndReturn(t, PyBool(DeleteResult(call[t].rowcount)))
    /\ Seen(t, call[t].ns)
    /\ UNCHANGED <<now, given, last, call, ncalls, rvars>>

\* delete_memory, lines 127-128
DeleteMemoryRows(t) ==
    /\ pc[t] = "delete_memory_rows"
    /\ Execute(t, memories, DeleteRowsOf(memory_data, call[t].ns), "delete_memory_entry")
    /\ Seen(t, call[t].ns)
    /\ UNCHANGED <<now, given, last, call, ncalls, rvars>>

\* delete_memory, line 129
DeleteMemoryTracking(t) ==
    /\ pc[t] = "delete_memory_entry"
    /\ Execute(t, DeleteMemoryEntry(memories, call[t].ns), memory_data, "delete_memory_commit")
    /\ Seen(t, call[t].ns)
    /\ UNCHANGED <<now, given, last, call, ncalls, rvars>>

\* delete_memory, line 130
DeleteMemoryCommit(t) ==
    /\ pc[t] = "delete_memory_commit"
    /\ CommitAndReturn(t, PyNone)
    /\ Seen(t, call[t].ns)
    /\ UNCHANGED <<now, given, last, call, ncalls, rvars>>

\* close() by thread t, one statement
ThreadClose(t) ==
    /\ pc[t] = "idle"
    /\ ConnClose
    /\ Seen(t, "close()")
    /\ UNCHANGED <<given, last, pc, call, result, start, ncalls, rvars>>

NextThreads ==
    \E t \in Threads :
        \/ \E c \in Calls : Begin(t, c)
        \/ StoreInsert(t)
        \/ StoreUpsert(t)
        \/ StoreCommit(t)
        \/ DeleteExecute(t)
        \/ DeleteCommit(t)
        \/ DeleteMemoryRows(t)
        \/ DeleteMemoryTracking(t)
        \/ DeleteMemoryCommit(t)
        \/ ThreadClose(t)

SpecThreads == Init /\ [][NextThreads]_allvars

\* ------------------------------------------------------- retrieval engine
\* core/retrieval.py: static methods on lists of records.  Strings are
\* sequences of characters here, so that lower() and `in` are computed.
Uppercase == <<"A", "B", "C", "D", "E", "F", "G", "H", "I", "J", "K", "L", "M",
               "N", "O", "P", "Q", "R", "S", "T", "U", "V", "W", "X", "Y", "Z">>
Lowercase == <<"a", "b", "c", "d", "e", "f", "g", "h", "i", "j", "k", "l", "m",
               "n", "o", "p", "q", "r", "s", "t", "u", "v", "w", "x", "y", "z">>

\* str.lower(), character by character
LowerChar(c) ==
    IF \E i \in DOMAIN Uppercase : Uppercase[i] = c
    THEN Lowercase[CHOOSE i \in DOMAIN Uppercase : Uppercase[i] = c]
    ELSE c

lower(str) == [i \in DOMAIN str |-> LowerChar(str[i])]

\* mutant: `in` that only looks at the start of the text
StartsWith(sub, str) == Len(sub) <= Len(str) /\ SubSeq(str, 1, Len(sub)) = sub

\* sub in str
Contains(sub, str) ==
    \E k \in 0..(Len(str) - Len(sub)) : SubSeq(str, k + 1, k + Len(sub)) = sub

Digit == <<"1", "2", "3", "4", "5", "6", "7", "8", "9">>

\* str(n) of an int
RECURSIVE IntText(_)
IntText(n) ==
    IF n < 0 THEN <<"-">> \o IntText(-n)
    ELSE IF n = 0 THEN <<"0">>
    ELSE IF n < 10 THEN <<Digit[n]>>
    ELSE IntText(n \div 10) \o IntText(n % 10)

\* the fields the input records are built with, in the order they are inserted
FieldOrder == <<"role", "note", "n", "tags", "title", "content", "timestamp",
                "memory_type", "category", "episode_id">>

\* item.keys() / item.items(): the fields of a record in insertion order
KeysOf(item) == SelectSeq(FieldOrder, LAMBDA f : f \in DOMAIN item.v)

RECURSIVE Join(_, _)
Join(texts, sep) ==
    IF texts = <<>> THEN <<>>
    ELSE IF Len(texts) = 1 THEN texts[1]
    ELSE texts[1] \o sep \o Join(Tail(texts), sep)

\* repr(x) and str(x): they differ on strings only (repr quotes them)
RECURSIVE Text(_, _)
Text(x, quoted) ==
    CASE x.t = "str" -> IF quoted THEN <<"'">> \o x.v \o <<"'">> ELSE x.v
      [] x.t = "int" -> IntText(x.v)
      [] x.t = "bool" -> IF x.v THEN <<"T", "r", "u", "e">> ELSE <<"F", "a", "l", "s", "e">>
      [] x.t = "NoneType" -> <<"N", "o", "n", "e">>
      [] x.t = "list" ->
            <<"[">> \o Join([i \in DOMAIN x.v |-> Text(x.v[i], TRUE)], <<",", " ">>) \o <<"]">>

str(x) == Text(x, FALSE)

\* isinstance(value, str)
IsStr(x) == x.t = "str"

\* line 15: [item for item in items if item.get(field) == value]
filter_by_field(its, field, value) ==
    SelectSeq(its, LAMBDA item : PyEq(Get(item, field), value))

\* mutant: returns inside the loop, after the first filter
FilterByFirst(its, filters) ==
    IF filters = <<>>
    THEN its
    ELSE filter_by_field(its, filters[1][1], filters[1][2])

\* lines 20-23: filters is a dict, given as its (field, value) entries in
\* insertion order; each entry filters the result of the one before
RECURSIVE filter_by_multiple(_, _)
filter_by_multiple(its, filters) ==
    IF filters = <<>>
    THEN its
    ELSE filter_by_multiple(filter_by_field(its, filters[1][1], filters[1][2]), Tail(filters))

\* lines 44-49: what the loop over the listed fields appends for one item
RECURSIVE ScanListed(_, _, _)
ScanListed(item, fields, term) ==
    IF fields = <<>>
    THEN <<>>
    ELSE IF fields[1] \in DOMAIN item.v /\ Contains(term, lower(str(item.v[fields[1]])))
    THEN <<item>>
    ELSE ScanListed(item, Tail(fields), term)

\* mutant: no break, the item is appended once for every field that matches
RECURSIVE ScanAllNoBreak(_, _, _)
ScanAllNoBreak(item, keys, term) ==
    IF keys = <<>>
    THEN <<>>
    ELSE IF IsStr(item.v[keys[1]]) /\ Contains(term, lower(item.v[keys[1]].v))
    THEN <<item>> \o ScanAllNoBreak(item, Tail(keys), term)
    ELSE ScanAllNoBreak(item, Tail(keys), term)

\* lines 52-55: what the loop over all fields appends for one item
RECURSIVE ScanAll(_, _, _)
ScanAll(item, keys, term) ==
    IF keys = <<>>
    THEN <<>>
    ELSE IF IsStr(item.v[keys[1]]) /\ Contains(term, lower(item.v[keys[1]].v))
    THEN <<item>>
    ELSE ScanAll(item, Tail(keys), term)

\* bool(fields): None and the empty list are false
Truthy(fields) == fields.t = "list" /\ fields.v # <<>>

\* lines 38-57; fields is None (the default) or a list of field names
RECURSIVE search_text(_, _, _)
search_text(its, search_term, fields) ==
    IF its = <<>>
    THEN <<>>
    ELSE (IF Truthy(fields)
          THEN ScanListed(its[1], fields.v, lower(search_term))
          ELSE ScanAll(its[1], KeysOf(its[1]), lower(search_term)))
         \o search_text(Tail(its), search_term, fields)

\* the characters of the texts, in code point order
CodePoints == <<"0">> \o Digit \o Uppercase \o Lowercase

\* ord(c)
CodePoint(c) == CHOOSE i \in DOMAIN CodePoints : CodePoints[i] = c

\* s < t on str: the first position where they differ decides, a proper
\* prefix is less
StrLt(s, t) ==
    \E k \in 1..Len(t) :
        /\ k - 1 <= Len(s)
        /\ \A j \in 1..(k - 1) : s[j] = t[j]
        /\ (k > Len(s) \/ CodePoint(s[k]) < CodePoint(t[k]))

\* int, bool (and float): the types that compare with each other by value
Numeric(x) == x.t \in {"int", "bool"}

\* list comparison looks for the first position where the elements are not ==
FirstDiff(a, b) ==
    LET both == {i \in DOMAIN a : i \in DOMAIN b /\ ~PyEq(a[i], b[i])}
    IN  IF both = {} THEN 0 ELSE CHOOSE i \in both : \A j \in both : i <= j

\* a < b raises TypeError ('<' not supported between instances of ...)
RECURSIVE LtRaises(_, _)
LtRaises(a, b) ==
    CASE Numeric(a) /\ Numeric(b) -> FALSE
      [] a.t = "str" /\ b.t = "str" -> FALSE
      [] a.t = "list" /\ b.t = "list" ->
            /\ FirstDiff(a.v, b.v) # 0
            /\ LtRaises(a.v[FirstDiff(a.v, b.v)], b.v[FirstDiff(a.v, b.v)])
      [] OTHER -> TRUE

\* a < b where it does not raise
RECURSIVE Lt(_, _)
Lt(a, b) ==
    CASE Numeric(a) /\ Numeric(b) -> AsInt(a) < AsInt(b)
      [] a.t = "str" /\ b.t = "str" -> StrLt(a.v, b.v)
      [] a.t = "list" /\ b.t = "list" ->
            IF FirstDiff(a.v, b.v) # 0
            THEN Lt(a.v[FirstDiff(a.v, b.v)], b.v[FirstDiff(a.v, b.v)])
            ELSE Len(a.v) < Len(b.v)

\* line 63, key=lambda x: x.get(field, ""): the empty string for a missing field
SortKey(item, field) == IF field \in DOMAIN item.v THEN item.v[field] ELSE PyStr(<<>>)

\* x goes in front of the first element of the sorted list s whose key is
\* greater, so behind every element with an equal key
Insert(x, s, field) ==
    LET greater == {i \in DOMAIN s : Lt(SortKey(x, field), SortKey(s[i], field))}
    IN  IF greater = {}
        THEN Append(s, x)
        ELSE LET i == CHOOSE i \in greater : \A j \in greater : i <= j
             IN  SubSeq(s, 1, i - 1) \o <<x>> \o SubSeq(s, i, Len(s))

\* list.sort on keys that compare: stable, ascending
RECURSIVE StableSort(_, _)
StableSort(its, field) ==
    IF its = <<>>
    THEN <<>>
    ELSE Insert(its[Len(its)], StableSort(SubSeq(its, 1, Len(its) - 1), field), field)

Reverse(s) == [i \in DOMAIN s |-> s[Len(s) + 1 - i]]

\* sorted(items, key=..., reverse=reverse).  A sort that returns has compared
\* every two neighbours of its result, so it raises as soon as two keys of
\* the list do not compare.  reverse=True reverses the list, sorts it and
\* reverses the result: equal keys keep their input order in both directions.
sorted(its, field, reverse) ==
    IF \E i, j \in DOMAIN its :
           i # j /\ LtRaises(SortKey(its[i], field), SortKey(its[j], field))
    THEN Outcome(TypeError, PyNone)
    ELSE Outcome("", IF reverse
                     THEN Reverse(StableSort(Reverse(its), field))
                     ELSE StableSort(its, field))

\* mutant: no except clause, the TypeError of sorted leaves the call
SortByFieldNoExcept(its, field, reverse) == sorted(its, field, reverse)

\* lines 62-66: try sorted(...), except TypeError: return items
sort_by_field(its, field, reverse) ==
    IF sorted(its, field, reverse).exc = TypeError
    THEN Outcome("", its)
    ELSE sorted(its, field, reverse)

\* mutant: items[:limit - 1]
LimitOneLess(its, limit) ==
    IF limit - 1 >= 0
    THEN SubSeq(its, 1, IF limit - 1 < Len(its) THEN limit - 1 ELSE Len(its))
    ELSE SubSeq(its, 1, Len(its) + limit - 1)

\* line 71: items[:limit]; a negative limit counts from the end of the list
limit_results(its, limit) ==
    IF limit >= 0
    THEN SubSeq(its, 1, IF limit < Len(its) THEN limit ELSE Len(its))
    ELSE SubSeq(its, 1, Len(its) + limit)

\* mutant: sorts oldest first
GetOldest(its, timestamp_field, limit) ==
    LET sorted_items == sort_by_field(its, timestamp_field, FALSE)
    IN  IF sorted_items.exc # ""
        THEN sorted_items
        ELSE Outcome("", limit_results(sorted_items.ret, limit))

\* lines 76-77: sort_by_field(items, timestamp_field, reverse=True), then
\* limit_results
get_recent(its, timestamp_field, limit) ==
    LET sorted_items == sort_by_field(its, timestamp_field, TRUE)
    IN  IF sorted_items.exc # ""
        THEN sorted_items
        ELSE Outcome("", limit_results(sorted_items.ret, limit))

\* ---- the record lists and arguments the engine is called with
Hi == PyStr(<<"H", "i">>)
eHi == PyDict([role |-> Hi, note |-> PyStr(<<"o", "H", "I">>), n |-> PyInt(1)])
eHo == PyDict([role |-> PyStr(<<"h", "o">>)])
\* no string field; the text 'hi' sits inside a list
eTags == PyDict([n |-> PyInt(2), tags |-> PyList(<<PyStr(<<"h", "i">>)>>)])
\* the field role is present and holds None
eNone == PyDict([role |-> PyNone, n |-> PyBool(TRUE)])
\* the role of eHo, and the greatest n
eLate == PyDict([role |-> PyStr(<<"h", "o">>), n |-> PyInt(3)])
EngineRecords == {eHi, eHo, eTags, eNone, eLate}

ItemLists == UNION {[1..n -> EngineRecords] : n \in 0..MaxItems}

FilterFields == {"role", "n", "tags"}
FilterValues == {Hi, PyInt(1), PyNone}
FilterEntries == {<<"role", Hi>>, <<"n", PyInt(1)>>, <<"tags", PyNone>>}
\* the dicts built from these entries, in every insertion order
FilterMaps == UNION {Orderings(S) : S \in SUBSET FilterEntries}

Terms == {<<"h", "i">>, <<"H", "I">>, <<"i">>, <<"1">>, <<>>}
FieldLists == {PyNone, PyList(<<>>), PyList(<<"role">>), PyList(<<"tags", "n">>)}

SortFields == {"role", "n", "tags"}
Limits == (-1)..(MaxItems + 1)

NoAnswer == [op |-> "", ret |-> PyNone]

InitEngineSpec ==
    /\ InitBackend
    /\ InitThreads
    /\ items \in ItemLists
    /\ answer = NoAnswer

FilterByField(field, value) ==
    /\ answer' = [op |-> "filter_by_field", field |-> field, value |-> value,
                  ret |-> filter_by_field(items, field, value)]
    /\ UNCHANGED <<vars, tvars, items>>

FilterByMultiple(filters) ==
    /\ answer' = [op |-> "filter_by_multiple", filters |-> filters,
                  ret |-> filter_by_multiple(items, filters)]
    /\ UNCHANGED <<vars, tvars, items>>

SearchText(search_term, fields) ==
    /\ answer' = [op |-> "search_text", search_term |-> search_term, fields |-> fields,
                  ret |-> search_text(items, search_term, fields)]
    /\ UNCHANGED <<vars, tvars, items>>

SortByField(field, reverse) ==
    /\ answer' = [op |-> "sort_by_field", field |-> field, reverse |-> reverse,
                  exc |-> sort_by_field(items, field, reverse).exc,
                  ret |-> sort_by_field(items, field, reverse).ret]
    /\ UNCHANGED <<vars, tvars, items>>

LimitResults(limit) ==
    /\ answer' = [op |-> "limit_results", limit |-> limit,
                  ret |-> limit_results(items, limit)]
    /\ UNCHANGED <<vars, tvars, items>>

GetRecent(timestamp_field, limit) ==
    /\ answer' = [op |-> "get_recent", timestamp_field |-> timestamp_field, limit |-> limit,
                  exc |-> get_recent(items, timestamp_field, limit).exc,
                  ret |-> get_recent(items, timestamp_field, limit).ret]
    /\ UNCHANGED <<vars, tvars, items>>

NextEngine ==
    \/ \E field \in FilterFields, value \in FilterValues : FilterByField(field, value)
    \/ \E filters \in FilterMaps : FilterByMultiple(filters)
    \/ \E search_term \in Terms, fields \in FieldLists : SearchText(search_term, fields)
    \/ \E field \in SortFields, reverse \in BOOLEAN : SortByField(field, reverse)
    \/ \E limit \in Limits : LimitResults(limit)
    \/ \E timestamp_field \in SortFields, limit \in Limits : GetRecent(timestamp_field, limit)

SpecEngine == InitEngineSpec /\ [][NextEngine]_allvars

\* ------------------------------------------------------------- the facade
\* core/memory_manager.py and memory_types/long_term.py: MemoryManager maps a
\* memory type name to a Memory object whose memory_id is that name, on one
\* SQLiteStorage.  Keys and string values are sequences of characters here,
\* since the records go through the retrieval engine.
\* self.memory_types (memory_manager.py lines 53-58), with the name as text
TypeText == [short_term |-> <<"s", "h", "o", "r", "t", "_", "t", "e", "r", "m">>,
             long_term |-> <<"l", "o", "n", "g", "_", "t", "e", "r", "m">>,
             episodic |-> <<"e", "p", "i", "s", "o", "d", "i", "c">>,
             semantic |-> <<"s", "e", "m", "a", "n", "t", "i", "c">>]
MemoryTypeNames == DOMAIN TypeText

\* datetime.now().isoformat(): text of fixed width, ordered as the clock is
isoformat(t) == IF t < 10 THEN <<"0">> \o IntText(t) ELSE IntText(t)

\* mutant: data[field] = value, whether the field is there or not
SetDefaultAlways(data, field, value) ==
    PyDict([f \in DOMAIN data.v \cup {field} |-> IF f = field THEN value ELSE data.v[f]])

\* if field not in data: data[field] = value
SetDefault(data, field, value) ==
    IF field \in DOMAIN data.v
    THEN data
    ELSE PyDict([f \in DOMAIN data.v \cup {field} |->
                    IF f \in DOMAIN data.v THEN data.v[f] ELSE value])

\* the per-type default of the four store methods (long_term.py lines 80-81,
\* 136-137, 202-203); short_term has none
TypeDefault(memory_type, key, data) ==
    CASE memory_type = "long_term" ->
            SetDefault(data, "category", PyStr(<<"g", "e", "n", "e", "r", "a", "l">>))
      [] memory_type = "episodic" -> SetDefault(data, "episode_id", PyStr(key))
      [] memory_type = "semantic" -> SetDefault(data, "tags", PyList(<<>>))
      [] OTHER -> data

\* the record the store methods hand to storage.store: timestamp, memory_type
\* and the per-type default are set where the caller's record lacks them
WithDefaults(memory_type, key, data) ==
    TypeDefault(memory_type, key,
        SetDefault(SetDefault(data, "timestamp", PyStr(isoformat(now))),
                   "memory_type", PyStr(TypeText[memory_type])))

\* Memory.count(): len(self.list_keys()), on an open connection
CountOf(memory_type) ==
    Cardinality({i \in DOMAIN memory_data : memory_data[i].memory_id = memory_type})

\* f"{memory_type}_{count}"
GeneratedKey(memory_type) ==
    TypeText[memory_type] \o <<"_">> \o IntText(CountOf(memory_type))

\* memory_manager.py lines 81-94.  data is a str or a dict, key a str or
\* None; the outcome is in last, the key returned being last.key
MMStore(memory_type, data, key) ==
    IF memory_type \notin MemoryTypeNames
    THEN /\ last' = Call("store", memory_type, "", ValueError, PyNone)
         /\ UNCHANGED <<conn, now, memories, memory_data, in_transaction, committed, given>>
         /\ UNCHANGED <<tvars, rvars>>
    ELSE LET record == IF data.t = "str" THEN PyDict([content |-> data]) ELSE data
             k == IF key = PyNone
                  THEN (IF CursorRaises THEN <<>> ELSE GeneratedKey(memory_type))
                  ELSE key.v
         IN  Store(memory_type, k, WithDefaults(memory_type, k, record))

\* lines 218-221
MMDelete(memory_type, key) ==
    IF memory_type \notin MemoryTypeNames
    THEN /\ last' = Call("delete", memory_type, "", ValueError, PyNone)
         /\ UNCHANGED <<conn, now, memories, memory_data, in_transaction, committed, given>>
         /\ UNCHANGED <<tvars, rvars>>
    ELSE Delete(memory_type, key.v)

\* lines 233-236
MMClear(memory_type) ==
    IF memory_type \notin MemoryTypeNames
    THEN /\ last' = Call("clear", memory_type, "", ValueError, PyNone)
         /\ UNCHANGED <<conn, now, memories, memory_data, in_transaction, committed, given>>
         /\ UNCHANGED <<tvars, rvars>>
    ELSE DeleteMemory(memory_type)

\* lines 110-113
MMRetrieve(memory_type, key) ==
    IF memory_type \notin MemoryTypeNames
    THEN Outcome(ValueError, PyNone)
    ELSE retrieve(memory_type, key.v)

\* bool(x) of a retrieved value: None and the empty dict are false
TruthyData(x) == ~(x = PyNone \/ (x.t = "dict" /\ DOMAIN x.v = {}))

\* all_keys = list_keys(memory_id); all_data = [retrieve(key) for key in
\* all_keys if retrieve(key)] (long_term.py lines 40-41 and the like), for
\* one outcome of list_keys
AllData(memory_type, keys) ==
    LET fetched == [i \in DOMAIN keys.v |-> retrieve(memory_type, keys.v[i].v)]
    IN  IF \E i \in DOMAIN fetched : fetched[i].exc # ""
        THEN Outcome(fetched[CHOOSE i \in DOMAIN fetched : fetched[i].exc # ""].exc, PyNone)
        ELSE Outcome("", SelectSeq([i \in DOMAIN fetched |-> fetched[i].ret], TruthyData))

\* the fields argument of the text search: SemanticMemory.query names three
\* fields (line 231), the other types none
SearchFields(memory_type) ==
    IF memory_type = "semantic"
    THEN PyList(<<"title", "content", "tags">>)
    ELSE PyNone

\* ShortTermMemory and EpisodicMemory sort their result (lines 51, 168)
SortsByTimestamp(memory_type) == memory_type \in {"short_term", "episodic"}

\* the query method of the four types on the data read: filters (kwargs, as
\* entries in call order), text search, sort by timestamp
QueryPipeline(memory_type, all_data, query_text, kwargs) ==
    LET filtered == IF kwargs # <<>> THEN filter_by_multiple(all_data, kwargs) ELSE all_data
        searched == IF query_text # <<>>
                    THEN search_text(filtered, query_text, SearchFields(memory_type))
                    ELSE filtered
    IN  IF SortsByTimestamp(memory_type)
        THEN sort_by_field(searched, "timestamp", TRUE).ret
        ELSE searched

\* memory_manager.py lines 136-139: search_query is None or a str
MMQuery(memory_type, search_query, filters) ==
    IF memory_type \notin MemoryTypeNames
    THEN {Outcome(ValueError, PyNone)}
    ELSE {IF keys.exc # "" THEN keys
          ELSE IF AllData(memory_type, keys.ret).exc # "" THEN AllData(memory_type, keys.ret)
          ELSE Outcome("", PyList(QueryPipeline(memory_type, AllData(memory_type, keys.ret).ret,
                                                IF search_query = PyNone THEN <<>> ELSE search_query.v,
                                                filters)))
          : keys \in list_keys(memory_type)}

\* lines 155-170: ShortTermMemory has get_recent, the other types take the
\* fallback (sort by timestamp, then sorted_data[:limit])
MMGetRecent(memory_type, limit) ==
    IF memory_type \notin MemoryTypeNames
    THEN {Outcome(ValueError, PyNone)}
    ELSE {IF keys.exc # "" THEN keys
          ELSE IF AllData(memory_type, keys.ret).exc # "" THEN AllData(memory_type, keys.ret)
          ELSE IF memory_type = "short_term"
          THEN Outcome("", PyList(get_recent(AllData(memory_type, keys.ret).ret,
                                             "timestamp", limit).ret))
          ELSE Outcome("", PyList(limit_results(
                   sort_by_field(AllData(memory_type, keys.ret).ret, "timestamp", TRUE).ret,
                   limit)))
          : keys \in list_keys(memory_type)}

\* the value of one type in the dict count() and list_all() build for all types
PerType(value) == PyDict([t \in MemoryTypeNames |-> value[t]])

\* the memory_type argument left out (None); a name is a string here
NoType == "<None>"

\* bool(memory_type): None and the empty str are false
TruthyType(memory_type) == memory_type \notin {NoType, ""}

\* lines 257-265: `if memory_type:`, then the lookup
MMCount(memory_type) ==
    IF TruthyType(memory_type)
    THEN IF memory_type \notin MemoryTypeNames
         THEN Outcome(ValueError, PyNone)
         ELSE IF CursorRaises
         THEN Outcome(ProgrammingError, PyNone)
         ELSE Outcome("", PyInt(CountOf(memory_type)))
    ELSE IF CursorRaises
    THEN Outcome(ProgrammingError, PyNone)
    ELSE Outcome("", PerType([t \in MemoryTypeNames |-> PyInt(CountOf(t))]))

\* lines 281-289
MMListAll(memory_type) ==
    IF TruthyType(memory_type)
    THEN IF memory_type \notin MemoryTypeNames
         THEN {Outcome(ValueError, PyNone)}
         ELSE list_keys(memory_type)
    ELSE IF CursorRaises
    THEN {Outcome(ProgrammingError, PyNone)}
    ELSE {Outcome("", PerType(value)) :
             value \in {f \in [MemoryTypeNames -> UNION {{o.ret : o \in list_keys(t)}
                                                          : t \in MemoryTypeNames}] :
                           \A t \in MemoryTypeNames : Outcome("", f[t]) \in list_keys(t)}}

\* ---- the calls made on the facade
\* the memory_type arguments: the four types, an unknown name, the empty str
TypeArgs == MemoryTypeNames \cup {"invalid_type", ""}
InvalidTypes == TypeArgs \ MemoryTypeNames

User == PyStr(<<"u", "s", "e", "r">>)
dUser == PyDict([role |-> User, content |-> Hi])
\* no role; the caller gives the timestamp, later than every clock value
dTitle == PyDict([title |-> Hi, timestamp |-> PyStr(<<"9", "9">>)])
FacadeData == {dUser, dTitle, PyStr(<<"H", "I">>)}

KeyA == PyStr(<<"a">>)
KeyB == PyStr(<<"b">>)
FacadeKeys == {KeyA, KeyB}
\* the (memory_type, key) arguments of the write calls; the key None asks
\* for a generated key
FacadeSlots == {<<"short_term", KeyA>>, <<"short_term", KeyB>>, <<"short_term", PyNone>>,
                <<"long_term", KeyA>>, <<"episodic", KeyA>>, <<"semantic", KeyA>>,
                <<"invalid_type", KeyA>>, <<"", KeyA>>}
\* the (memory_type, key) a row can have: the given keys and the generated ones
FacadePairs ==
    (MemoryTypeNames \X {k.v : k \in FacadeKeys})
        \cup {<<t, TypeText[t] \o <<"_">> \o IntText(n)>> : t \in MemoryTypeNames, n \in 0..MaxRows}

FacadeFilters == {<<>>, <<(<<"role", User>>)>>, <<(<<"role", PyNone>>)>>,
                  <<(<<"role", User>>), (<<"content", Hi>>)>>}
FacadeSearches == {PyNone, PyStr(<<>>), PyStr(<<"h", "I">>)}

\* MemoryManager(db_path) on a new file
InitFacade ==
    /\ conn = "open"
    /\ now = 0
    /\ memories = {}
    /\ memory_data = <<>>
    /\ in_transaction = FALSE
    /\ committed = Image({}, <<>>)
    /\ given = [p \in FacadePairs |-> PyNone]
    /\ last = Returned("__init__", "", "", PyNone)
    /\ InitThreads
    /\ InitEngine

NextFacade ==
    \/ \E p \in FacadeSlots, data \in FacadeData : MMStore(p[1], data, p[2])
    \/ \E p \in FacadeSlots : p[2] # PyNone /\ MMDelete(p[1], p[2])
    \/ \E memory_type \in TypeArgs : MMClear(memory_type)

SpecFacade == InitFacade /\ [][NextFacade]_allvars

\* ---- episodes and their dates (EpisodicMemory, long_term.py lines 126-189)
\* s <= t on str
StrLe(s, t) == s = t \/ StrLt(s, t)

\* long_term.py lines 172-181, for every outcome of list_keys.  The test of
\* line 179 compares the str start_date with item.get("timestamp", ""): on a
\* timestamp that is not a str the comparison raises TypeError, outside the
\* try of sort_by_field
get_by_date_range(start_date, end_date) ==
    {IF keys.exc # "" THEN keys
     ELSE LET all_data == AllData("episodic", keys.ret)
          IN  IF all_data.exc # "" THEN all_data
              ELSE IF \E i \in DOMAIN all_data.ret :
                         LtRaises(PyStr(start_date), SortKey(all_data.ret[i], "timestamp"))
              THEN Outcome(TypeError, PyNone)
              ELSE Outcome("", PyList(sort_by_field(
                       SelectSeq(all_data.ret,
                                 LAMBDA item :
                                     /\ StrLe(start_date, SortKey(item, "timestamp").v)
                                     /\ StrLe(SortKey(item, "timestamp").v, end_date)),
                       "timestamp", TRUE).ret))
     : keys \in list_keys("episodic")}

\* the episodes stored: without a timestamp (the store sets the clock's),
\* with a date later than every clock value, with a date between the clock
\* values and that one, and with a timestamp given as a number
dEvent == PyDict([title |-> Hi])
dMid == PyDict([title |-> Hi, timestamp |-> PyStr(<<"5", "0">>)])
dEpoch == PyDict([title |-> Hi, timestamp |-> PyInt(1)])
EpisodeData == {dEvent, dTitle, dMid, dEpoch}

\* the start_date and end_date arguments
Dates == {<<>>, <<"0", "0">>, <<"0", "1">>, <<"5", "0">>, <<"9", "9">>}

NextEpisodic ==
    \/ Tick
    \/ \E key \in FacadeKeys, data \in EpisodeData : MMStore("episodic", data, key)
    \/ \E key \in FacadeKeys : MMDelete("episodic", key)
    \/ MMClear("episodic")

SpecEpisodic == InitFacade /\ [][NextEpisodic]_allvars

\* ---- a facade read beside the writes of another thread
\* The query and get_recent methods read list_keys once and then call
\* retrieve twice for every key, `[self.retrieve(key) for key in all_keys if
\* self.retrieve(key)]` (long_term.py lines 40-41, 57-58, 101-102): each of
\* these is one SELECT on the shared connection, and the statements of
\* another thread's delete or clear run between them.
Reader == "t1"

QueryCall(memory_type, filters) ==
    [op |-> "query", ns |-> memory_type, filters |-> filters, limit |-> 0,
     keys |-> <<>>, i |-> 1, all_data |-> <<>>]
GetRecentCall(memory_type, limit) ==
    [op |-> "get_recent", ns |-> memory_type, filters |-> <<>>, limit |-> limit,
     keys |-> <<>>, i |-> 1, all_data |-> <<>>]

\* the reads the thread makes
Reads ==
    {QueryCall(memory_type, filters) :
        memory_type \in {"short_term", "long_term"}, filters \in {<<>>, <<(<<"role", User>>)>>}}
        \cup {GetRecentCall("short_term", 1)}

\* the next key of the list, or the end of the comprehension
NextKey(t, c) ==
    /\ call' = [call EXCEPT ![t] = c]
    /\ pc' = [pc EXCEPT ![t] = IF c.i > Len(c.keys) THEN "read_finish" ELSE "read_test"]

\* all_keys = self.storage.list_keys(self.memory_id)
ReadListKeys(t, c) ==
    /\ pc[t] = "idle"
    /\ \E keys \in list_keys(c.ns) :
          /\ keys.exc = ""
          /\ NextKey(t, [c EXCEPT !.keys = keys.ret.v])
    /\ start' = [start EXCEPT ![t] = [view |-> Image(memories, memory_data), disk |-> committed]]
    /\ UNCHANGED <<vars, result, sampled, overlap, ncalls, rvars>>

\* `if self.retrieve(key)`: a key whose record is gone (or empty) is skipped
ReadTest(t) ==
    /\ pc[t] = "read_test"
    /\ LET c == call[t]
           found == retrieve(c.ns, c.keys[c.i].v)
       IN  IF found.exc = "" /\ TruthyData(found.ret)
           THEN /\ pc' = [pc EXCEPT ![t] = "read_value"]
                /\ UNCHANGED call
           ELSE NextKey(t, [c EXCEPT !.i = c.i + 1])
    /\ UNCHANGED <<vars, result, sampled, start, overlap, ncalls, rvars>>

\* `self.retrieve(key)`, the element: the second SELECT for the key, whose
\* value goes into all_data as it is
ReadValue(t) ==
    /\ pc[t] = "read_value"
    /\ LET c == call[t]
           found == retrieve(c.ns, c.keys[c.i].v)
       IN  NextKey(t, [c EXCEPT !.i = c.i + 1, !.all_data = Append(c.all_data, found.ret)])
    /\ UNCHANGED <<vars, result, sampled, start, overlap, ncalls, rvars>>

\* item.get(...) on None raises AttributeError, which no handler catches
\* (sort_by_field catches TypeError only)
GetRaises(its) == \E i \in DOMAIN its : its[i] = PyNone

\* the rest of the query method on all_data (lines 44-53, 105-111), the text
\* search left out (query ""), and of get_recent (line 59)
ReadRest(c) ==
    IF c.op = "get_recent"
    THEN IF GetRaises(c.all_data)
         THEN Outcome(AttributeError, PyNone)
         ELSE Outcome("", PyList(get_recent(c.all_data, "timestamp", c.limit).ret))
    ELSE IF GetRaises(c.all_data) /\ (c.filters # <<>> \/ SortsByTimestamp(c.ns))
    THEN Outcome(AttributeError, PyNone)
    ELSE IF GetRaises(c.all_data)
    THEN Outcome("", PyList(c.all_data))
    ELSE Outcome("", PyList(QueryPipeline(c.ns, c.all_data, <<>>, c.filters)))

ReadFinish(t) ==
    /\ pc[t] = "read_finish"
    /\ Finish(t, ReadRest(call[t]).exc, ReadRest(call[t]).ret)
    /\ UNCHANGED <<vars, call, sampled, overlap, ncalls, rvars>>

\* the stores are made between the reads; delete and clear are made by
\* another thread at any moment, their DELETE statements taking effect on the
\* shared connection at once
NextReaders ==
    \/ /\ pc[Reader] = "idle"
       /\ \E p \in {<<"short_term", KeyA>>, <<"short_term", KeyB>>, <<"long_term", KeyA>>},
             data \in {dUser, dTitle} : MMStore(p[1], data, p[2])
    \/ \E p \in {<<"short_term", KeyA>>, <<"long_term", KeyA>>} : MMDelete(p[1], p[2])
    \/ \E memory_type \in {"short_term", "long_term"} : MMClear(memory_type)
    \/ \E c \in Reads : ReadListKeys(Reader, c)
    \/ ReadTest(Reader)
    \/ ReadValue(Reader)
    \/ ReadFinish(Reader)

SpecReaders == InitFacade /\ [][NextReaders]_allvars

\* ================================================================== claims
Pairs == Namespaces \X Keys

\* the value kinds json round-trips: str, number, bool, null, list, dict
RECURSIVE IsJsonKind(_)
IsJsonKind(x) ==
    CASE x.t \in {"str", "int", "bool", "NoneType"} -> TRUE
      [] x.t = "list" -> \A i \in DOMAIN x.v : IsJsonKind(x.v[i])
      [] x.t = "dict" -> \A k \in DOMAIN x.v : IsJsonKind(x.v[k])
      [] OTHER -> FALSE

\* C1 (as claimed): on an open backend retrieve(ns, k) returns exactly the
\* record given to the most recent store(ns, k, r) not followed by a delete
\* or delete_namespace, and None when there is no such store.
C1_RetrieveReturnsGivenRecord ==
    \A p \in Pairs :
        conn = "open" => retrieve(p[1], p[2]) = Outcome("", given[p])

\* C1 (amended): on an open backend retrieve(ns, k) returns the decoded
\* encoding of the record given to the most recent successful store(ns, k, r)
\* not followed by a delete or delete_namespace; that is r itself whenever r
\* is built from the value kinds json supports; and it returns None, raising
\* nothing, when there is no such store.
C1_ReadAfterWrite ==
    \A p \in Pairs :
        conn = "open" =>
            /\ retrieve(p[1], p[2]).exc = ""
            /\ given[p] = PyNone => retrieve(p[1], p[2]).ret = PyNone
            /\ given[p] # PyNone =>
                   retrieve(p[1], p[2]).ret = deserialize_data(serialize_data(given[p]))
            /\ IsJsonKind(given[p]) => retrieve(p[1], p[2]).ret = given[p]

\* C1 witness: a key overwritten with r2 reads back as r2 while its
\* neighbour, stored and then deleted, reads back as None.
C1_Witness ==
    /\ conn = "open"
    /\ given[<<"x", "a">>] = r2
    /\ retrieve("x", "a").ret = r2
    /\ memory_data[1].created_at < memory_data[1].updated_at
    /\ last = Returned("delete", "x", "b", PyBool(TRUE))
    /\ retrieve("x", "b").ret = PyNone

\* the row stored under (ns, k)
RowAt(rows, ns, k) == rows[CHOOSE i \in DOMAIN rows : Matches(rows[i], ns, k)]

\* a store call that returns normally
StoreOk(ns, k, data) ==
    /\ ~CursorRaises /\ ~DumpsRaises(data)
    /\ last' = Returned("store", ns, k, PyNone)
    /\ Store(ns, k, data)

\* a delete call on an open backend
DeleteOk(ns, k) ==
    /\ ~CursorRaises
    /\ last'.op = "delete" /\ last'.ns = ns /\ last'.key = k
    /\ Delete(ns, k)

UniqueKeys ==
    /\ \A i, j \in DOMAIN memory_data :
           Matches(memory_data[i], memory_data[j].memory_id, memory_data[j].key) => i = j
    /\ \A ns \in Namespaces : \A o \in list_keys(ns) :
           o.exc = "" => \A i, j \in DOMAIN o.ret.v : o.ret.v[i] = o.ret.v[j] => i = j

\* C2 (as claimed): list_keys(ns) never holds a key twice, and a store(ns, k, r2)
\* on a key that has a row makes retrieve(ns, k) return r2 and leaves the
\* number of rows of ns unchanged.
C2_ReplaceReturnsGivenRecord ==
    /\ []UniqueKeys
    /\ [][\A p \in Pairs, data \in Records :
            (HasRow(memory_data, p[1], p[2]) /\ StoreOk(p[1], p[2], data)) =>
                /\ retrieve(p[1], p[2])' = Outcome("", data)
                /\ Len(RowsOf(memory_data', p[1])) = Len(RowsOf(memory_data, p[1]))]_vars

\* C2 (amended): list_keys(ns) never holds a key twice, and a store(ns, k, r2)
\* on a key that has a row replaces the whole payload by the encoding of r2:
\* retrieve(ns, k) returns the decoded encoding of r2 (r2 itself when r2 is
\* built from the value kinds json supports), with exactly the fields of r2
\* and none of the previous record, and the number of rows of ns and of the
\* table is unchanged.
C2_UniqueKeysAndReplace ==
    /\ []UniqueKeys
    /\ [][\A p \in Pairs, data \in Records :
            (HasRow(memory_data, p[1], p[2]) /\ StoreOk(p[1], p[2], data)) =>
                /\ RowAt(memory_data', p[1], p[2]).data = serialize_data(data)
                /\ retrieve(p[1], p[2])' = Outcome("", deserialize_data(serialize_data(data)))
                /\ IsJsonKind(data) => retrieve(p[1], p[2])' = Outcome("", data)
                /\ DOMAIN retrieve(p[1], p[2])'.ret.v = DOMAIN data.v
                /\ Len(RowsOf(memory_data', p[1])) = Len(RowsOf(memory_data, p[1]))
                /\ Len(memory_data') = Len(memory_data)]_vars

\* C2 witness: r1 (role, content) was replaced by r2 (role, timestamp, tags)
\* under one key while the namespace holds a second key.
C2_Witness ==
    /\ conn = "open"
    /\ last = Returned("store", "x", "a", PyNone)
    /\ HasRow(memory_data, "x", "a") /\ HasRow(memory_data, "x", "b")
    /\ RowAt(memory_data, "x", "a").created_at < RowAt(memory_data, "x", "a").updated_at
    /\ retrieve("x", "a").ret = r2
    /\ "content" \notin DOMAIN retrieve("x", "a").ret.v

CreatedBeforeUpdated ==
    \A i \in DOMAIN memory_data : memory_data[i].created_at <= memory_data[i].updated_at

\* C3: a store on a key that has a row leaves the row's created_at unchanged
\* and sets its updated_at to the current time; a store on a new key sets both
\* to the current time; so created_at <= updated_at in every row; and the
\* outcome is the same whatever the payload holds (r2 carries a "timestamp"
\* field, r1 does not).
C3_Timestamps ==
    /\ []CreatedBeforeUpdated
    /\ [][\A p \in Pairs, data \in Records :
            StoreOk(p[1], p[2], data) =>
                /\ RowAt(memory_data', p[1], p[2]).updated_at = now
                /\ RowAt(memory_data', p[1], p[2]).created_at =
                       IF HasRow(memory_data, p[1], p[2])
                       THEN RowAt(memory_data, p[1], p[2]).created_at
                       ELSE now]_vars

\* C3 witness: a row created at one time and re-stored later with a payload
\* that has its own "timestamp" field.
C3_Witness ==
    /\ last = Returned("store", "x", "a", PyNone)
    /\ HasRow(memory_data, "x", "a")
    /\ RowAt(memory_data, "x", "a").created_at = 0
    /\ RowAt(memory_data, "x", "a").updated_at = 1
    /\ "timestamp" \in DOMAIN retrieve("x", "a").ret.v

\* C4: on an open backend delete(ns, k) raises nothing, returns True exactly
\* when a row (ns, k) existed immediately before the call, and leaves no such
\* row; so a delete(ns, k) that follows a delete(ns, k) returns False, and in
\* the state after any delete(ns, k) a further delete(ns, k) would return False.
C4_DeleteResult ==
    [][\A p \in Pairs :
        DeleteOk(p[1], p[2]) =>
            /\ last'.exc = ""
            /\ last'.ret = PyBool(HasRow(memory_data, p[1], p[2]))
            /\ ~HasRow(memory_data', p[1], p[2])
            /\ ~DeleteResult(RowCount(memory_data', p[1], p[2]))
            /\ (last.op = "delete" /\ last.exc = "" /\ last.ns = p[1] /\ last.key = p[2])
                   => last'.ret = PyBool(FALSE)]_vars

\* C4 witness: a delete that found its row and returned True, the other row
\* of the namespace still there.
C4_Witness ==
    /\ last = Returned("delete", "x", "a", PyBool(TRUE))
    /\ ~HasRow(memory_data, "x", "a")
    /\ HasRow(memory_data, "x", "b")

\* C4 witness of the second call: delete(x, a) returned False on a namespace
\* that is tracked and holds no row (a) any more.
C4_WitnessAgain ==
    /\ last = Returned("delete", "x", "a", PyBool(FALSE))
    /\ "x" \in memories
    /\ given[<<"x", "a">>] = PyNone

\* the rows stored under (ns, k), as a set
RowSet(rows, ns, k) == {rows[i] : i \in {j \in DOMAIN rows : Matches(rows[j], ns, k)}}

DeleteMemoryOk(ns) ==
    /\ ~CursorRaises
    /\ last' = Returned("delete_memory", ns, "", PyNone)
    /\ DeleteMemory(ns)

\* what delete_namespace(ns) leaves behind: no row of ns, no tracking entry
C6_Cleared(ns) ==
    /\ last'.exc = ""
    /\ list_keys(ns)' = {Outcome("", PyList(<<>>))}
    /\ \A k \in Keys : retrieve(ns, k)' = Outcome("", PyNone)
    /\ \A o \in list_memories' : \A i \in DOMAIN o.ret.v : o.ret.v[i] # PyStr(ns)
    /\ ns \notin memories'

\* C6 (as claimed, its no-op clause taken where delete has just removed the
\* last row of ns): delete_namespace(ns) removes the rows and the tracking
\* entry of ns, and is a no-op when ns had no rows.
C6_NoOpWhenNoRows ==
    [][\A ns \in Namespaces :
        DeleteMemoryOk(ns) =>
            /\ C6_Cleared(ns)
            /\ (/\ RowsOf(memory_data, ns) = <<>>
                /\ last.op = "delete" /\ last.ns = ns /\ last.ret = PyBool(TRUE))
                   => (memories' = memories /\ memory_data' = memory_data)]_vars

\* C6 (amended): delete_namespace(ns) raises nothing and removes every row of
\* ns and the tracking entry of ns: afterwards list_keys(ns) is empty,
\* retrieve(ns, k) is None for every k and ns is not in list_namespaces; rows
\* and entries of other namespaces are untouched; when ns had no rows it still
\* removes the tracking entry of ns if there is one (an emptied namespace
\* stays tracked), and it is a no-op only when ns has neither rows nor a
\* tracking entry; a later store(ns, k, r) re-creates the tracking entry and
\* the row.
C6_DeleteNamespace ==
    [][\A ns \in Namespaces :
        /\ DeleteMemoryOk(ns) =>
            /\ C6_Cleared(ns)
            /\ memories' = memories \ {ns}
            /\ memory_data' = SelectSeq(memory_data, LAMBDA row : row.memory_id # ns)
            /\ (RowsOf(memory_data, ns) = <<>> /\ ns \notin memories)
                   => (memories' = memories /\ memory_data' = memory_data)
        /\ \A k \in Keys, data \in Records :
            (ns \notin memories /\ StoreOk(ns, k, data)) =>
                /\ ns \in memories'
                /\ \A o \in list_memories' : \E i \in DOMAIN o.ret.v : o.ret.v[i] = PyStr(ns)
                /\ list_keys(ns)' = {Outcome("", PyList(<<PyStr(k)>>))}]_vars

\* C6 witness: delete_namespace(x) has run while y holds a row: x is gone,
\* y is intact.
C6_Witness ==
    /\ last = Returned("delete_memory", "x", "", PyNone)
    /\ memories = {"y"}
    /\ RowsOf(memory_data, "x") = <<>>
    /\ HasRow(memory_data, "y", "a")
    /\ given[<<"y", "a">>] = r1

\* a write call on namespace x, whatever its outcome
WriteOn(x) ==
    /\ last'.exc # "" \/ last'.ns = x
    /\ \/ /\ last'.op = "store"
          /\ \E k \in Keys : /\ last'.exc # "" \/ last'.key = k
                             /\ \E data \in Records : Store(x, k, data)
       \/ /\ last'.op = "delete"
          /\ \E k \in Keys : /\ last'.exc # "" \/ last'.key = k
                             /\ Delete(x, k)
       \/ /\ last'.op = "delete_memory"
          /\ DeleteMemory(x)

\* C7: store, delete and delete_namespace on namespace x leave retrieve(y, k),
\* list_keys(y) and query(y, f) as they were, for every other namespace y,
\* key k and filter map f, and leave the tracking entry of y as it was; a key
\* never stored in y is never visible through y.
C7_NamespaceIsolation ==
    /\ [](\A p \in Pairs : (conn = "open" /\ given[p] = PyNone) =>
              retrieve(p[1], p[2]) = Outcome("", PyNone))
    /\ [][\A x \in Namespaces : WriteOn(x) =>
            \A y \in Namespaces \ {x} :
                /\ \A k \in Keys : retrieve(y, k)' = retrieve(y, k)
                /\ list_keys(y)' = list_keys(y)
                /\ \A f \in Filters : query(y, f)' = query(y, f)
                /\ RowsOf(memory_data', y) = RowsOf(memory_data, y)
                /\ (y \in memories') = (y \in memories)]_vars

\* C7 witness: key a was stored in x after y got its own key a with another
\* record; y still reads its own.
C7_Witness ==
    /\ last = Returned("store", "x", "a", PyNone)
    /\ given[<<"x", "a">>] = r2
    /\ given[<<"y", "a">>] = r1
    /\ retrieve("y", "a") = Outcome("", r1)
    /\ retrieve("y", "b") = Outcome("", PyNone)
    /\ RowAt(memory_data, "y", "a").updated_at < RowAt(memory_data, "x", "a").created_at

\* the keys of ns in the order their rows were inserted
InsertionOrder(ns) ==
    LET rows == RowsOf(memory_data, ns)
    IN  PyList([i \in DOMAIN rows |-> PyStr(rows[i].key)])

RaisesClosed(out) == out.exc = ProgrammingError

\* C9: after close() every store, retrieve, query, delete, delete_namespace,
\* list_keys and list_namespaces call raises the closed-connection error
\* (sqlite3.ProgrammingError, the backend's ClosedBackendError) and changes
\* neither table nor the committed image.
C9_ClosedGuard ==
    /\ [](conn = "closed" =>
            /\ \A p \in Pairs : RaisesClosed(retrieve(p[1], p[2]))
            /\ \A ns \in Namespaces :
                /\ \A o \in list_keys(ns) : RaisesClosed(o)
                /\ \A f \in Filters : \A o \in query(ns, f) : RaisesClosed(o)
            /\ \A o \in list_memories : RaisesClosed(o))
    /\ [][\A x \in Namespaces :
            (conn = "closed" /\ WriteOn(x)) =>
                /\ RaisesClosed(last')
                /\ UNCHANGED <<conn, memories, memory_data, committed, in_transaction>>]_vars

\* C9 witness: a store on a closed backend raised; the rows written before
\* close() are all there.
C9_Witness ==
    /\ conn = "closed"
    /\ last = Raised("store", ProgrammingError)
    /\ Len(memory_data) = MaxRows
    /\ committed = Image(memories, memory_data)

\* C10: the connection is open or closed; close() closes it and raises
\* nothing; once closed it stays closed under every call; close() on a closed
\* backend raises nothing and changes nothing.
C10_Lifecycle ==
    /\ [](conn \in {"open", "closed"})
    /\ [][conn = "closed" => conn' = "closed"]_vars
    /\ [][(Close \/ Del) =>
            /\ conn' = "closed"
            /\ last'.exc = ""
            /\ conn = "closed" => UNCHANGED <<memories, memory_data, committed, in_transaction>>]_vars

\* C10 witness: close() has returned on a backend that holds rows; nothing is
\* pending and one namespace is untracked.
C10_Witness ==
    /\ conn = "closed"
    /\ last = Returned("close", "", "", PyNone)
    /\ memory_data # <<>>
    /\ memories = committed.memories
    /\ \E ns \in Namespaces : ns \notin memories

\* the payload holds the pair: the field is present and its value is the value
HasPair(item, field, value) == field \in DOMAIN item.v /\ item.v[field] = value

\* the rows of ns whose decoded payload holds every pair of filters
RowsHolding(ns, filters) ==
    {i \in DOMAIN memory_data :
        /\ memory_data[i].memory_id = ns
        /\ \A field \in DOMAIN filters :
               HasPair(deserialize_data(memory_data[i].data), field, filters[field])}

\* C11 (as claimed): on an open backend query(ns, filters) raises nothing and
\* returns, each stored row once and in some order, exactly the decoded
\* payloads of the rows of ns that have every field of filters present with
\* exactly the value given; with the empty filter map that is every row of ns.
C11_QueryExactMatches ==
    \A ns \in Namespaces, f \in Filters :
        conn = "open" =>
            \A o \in query(ns, f) :
                /\ o.exc = ""
                /\ \E ord \in Orderings(RowsHolding(ns, f)) :
                       o.ret = PyList([n \in DOMAIN ord |->
                                          deserialize_data(memory_data[ord[n]].data)])

\* what a new connection to the same database file shows after a crash: the
\* committed image, the open transaction being lost
AfterCrash == committed

\* C12: when store, delete or delete_namespace has returned without raising,
\* no change is pending on the connection and the committed image holds the
\* call's full effect: for store the tracking entry of ns and one row (ns, k)
\* with the encoding of the record, for delete no row (ns, k), for
\* delete_namespace no row and no tracking entry of ns; everything else the
\* connection sees is committed too.
C12_Durability ==
    [][\A p \in Pairs :
        /\ (\E data \in Records : StoreOk(p[1], p[2], data)) =>
              /\ ~in_transaction'
              /\ AfterCrash' = Image(memories', memory_data')
              /\ p[1] \in AfterCrash'.memories
              /\ RowCount(AfterCrash'.memory_data, p[1], p[2]) = 1
              /\ RowAt(AfterCrash'.memory_data, p[1], p[2]).data = serialize_data(given'[p])
        /\ DeleteOk(p[1], p[2]) =>
              /\ ~in_transaction'
              /\ AfterCrash' = Image(memories', memory_data')
              /\ RowCount(AfterCrash'.memory_data, p[1], p[2]) = 0
        /\ DeleteMemoryOk(p[1]) =>
              /\ ~in_transaction'
              /\ AfterCrash' = Image(memories', memory_data')
              /\ p[1] \notin AfterCrash'.memories
              /\ RowsOf(AfterCrash'.memory_data, p[1]) = <<>>]_vars

\* C12 witness: a store that replaced a row has returned and the committed
\* image holds the new payload.
C12_Witness ==
    /\ last = Returned("store", "x", "a", PyNone)
    /\ given[<<"x", "a">>] = r2
    /\ ~in_transaction
    /\ RowAt(committed.memory_data, "x", "a").data = serialize_data(r2)
    /\ RowAt(committed.memory_data, "x", "a").created_at < RowAt(committed.memory_data, "x", "a").updated_at

\* the tables a call leaves when it runs alone on the tables img
Effect(c, img) ==
    CASE c.op = "store" ->
            IF DumpsRaises(c.data)
            THEN Image(InsertOrIgnoreMemory(img.memories, c.ns), img.memory_data)
            ELSE Image(InsertOrIgnoreMemory(img.memories, c.ns),
                       Upsert(img.memory_data, c.ns, c.key, serialize_data(c.data), now))
      [] c.op = "delete" -> Image(img.memories, DeleteRow(img.memory_data, c.ns, c.key))
      [] c.op = "delete_memory" ->
            Image(DeleteMemoryEntry(img.memories, c.ns), DeleteRowsOf(img.memory_data, c.ns))

\* no other thread ran a statement of a write call during the call of t
Alone(t) == overlap[t] \subseteq {"close()"}

\* every committed row is whole: its payload is the encoding of one record given
WholeRows ==
    \A i \in DOMAIN committed.memory_data :
        \E data \in Records :
            ~DumpsRaises(data) /\ committed.memory_data[i].data = serialize_data(data)

\* the call of t ends in this step
Finishes(t) == InFlight(t) /\ pc'[t] = "idle"

\* C13: while a store, delete or delete_namespace call runs (with no statement
\* of another call in between), what a crash would leave - the committed
\* image - is the image from before the call or the image with the call's
\* whole effect, never one in between (rows of a namespace deleted, tracking
\* entry still there); a call that returns has left its whole effect, a call
\* that raises has left the image from before; every committed row holds one
\* whole payload.
C13_CrashAtomicity ==
    /\ [](\A t \in Threads :
            (InFlight(t) /\ Alone(t)) =>
                AfterCrash \in {start[t].disk, Effect(call[t], start[t].view)})
    /\ []WholeRows
    /\ [][\A t \in Threads :
            (Finishes(t) /\ Alone(t)) =>
                IF result'[t].exc = ""
                THEN AfterCrash' = Effect(call[t], start[t].view)
                ELSE AfterCrash' = start[t].disk]_allvars

\* C13 witness: delete_namespace has deleted the rows of x and not yet the
\* tracking entry; the committed image still holds both.
C13_Witness ==
    \E t \in Threads :
        /\ pc[t] = "delete_memory_entry"
        /\ Alone(t)
        /\ RowsOf(memory_data, "x") = <<>>
        /\ RowsOf(committed.memory_data, "x") # <<>>
        /\ "x" \in committed.memories
        /\ AfterCrash = start[t].disk

\* threads t and u have both returned from store calls on one (ns, k) that
\* ran concurrently, and the backend is open
BothStored(t, u) ==
    /\ t # u
    /\ ~InFlight(t) /\ ~InFlight(u)
    /\ call[t].op = "store" /\ call[u].op = "store"
    /\ call[t].ns = call[u].ns /\ call[t].key = call[u].key
    /\ result[t].exc = "" /\ result[u].exc = ""
    /\ call[t].ns \in overlap[t] \cup overlap[u]
    /\ conn = "open"

\* C14 (as claimed): after two concurrent store calls on the same (ns, k) have
\* both returned, exactly one row (ns, k) exists and retrieve(ns, k) equals
\* the record of one of the two calls.
C14_OneOfTheTwoRecords ==
    \A t, u \in Threads :
        BothStored(t, u) =>
            /\ RowCount(memory_data, call[t].ns, call[t].key) = 1
            /\ retrieve(call[t].ns, call[t].key) \in
                   {Outcome("", call[t].data), Outcome("", call[u].data)}

\* C14 (amended): after two concurrent store calls on the same (ns, k) have
\* both returned, exactly one row (ns, k) exists, its payload is the whole
\* encoding of the record of one of the two calls, and retrieve(ns, k)
\* returns the decoded encoding of that record.
C14_ConcurrentStores ==
    \A t, u \in Threads :
        BothStored(t, u) =>
            /\ RowCount(memory_data, call[t].ns, call[t].key) = 1
            /\ RowAt(memory_data, call[t].ns, call[t].key).data \in
                   {serialize_data(call[t].data), serialize_data(call[u].data)}
            /\ retrieve(call[t].ns, call[t].key) \in
                   {Outcome("", deserialize_data(serialize_data(call[t].data))),
                    Outcome("", deserialize_data(serialize_data(call[u].data)))}

\* C14 witness: the stores of r1 and r2 on (x, a) interleaved, both returned,
\* and the row holds r2 whole.
C14_Witness ==
    /\ BothStored("t1", "t2")
    /\ call["t1"].data = r1 /\ call["t2"].data = r2
    /\ "x" \in overlap["t1"] /\ "x" \in overlap["t2"]
    /\ retrieve("x", "a") = Outcome("", r2)
    /\ committed = Image(memories, memory_data)

\* what the reads return on the tables img: list_namespaces the tracking
\* entries; list_keys, retrieve and query the namespace, key, payload and
\* created_at of the rows
Visible(img) ==
    [namespaces |-> img.memories,
     rows |-> [i \in DOMAIN img.memory_data |->
                  [memory_id |-> img.memory_data[i].memory_id,
                   key |-> img.memory_data[i].key,
                   data |-> img.memory_data[i].data,
                   created_at |-> img.memory_data[i].created_at]]]

\* thread t is in a write call and every other thread is free to read: none
\* has run a statement of a write call since the call of t began
ReadersBeside(t) ==
    /\ InFlight(t)
    /\ Alone(t)
    /\ \A u \in Threads \ {t} : ~InFlight(u)
    /\ conn = "open"

\* C15 (as claimed): what retrieve, query, list_keys and list_namespaces
\* return while a write call is in progress is what they return on the tables
\* from before the call or on the tables with the call's whole effect, never
\* on tables in between (the tracking entry of a namespace without its first
\* row; the rows of a namespace deleted and its tracking entry still there).
C15_ReadsSeeWholeWrites ==
    \A t \in Threads :
        ReadersBeside(t) =>
            Visible(Image(memories, memory_data)) \in
                {Visible(start[t].view), Visible(Effect(call[t], start[t].view))}

\* the part of the tables img that belongs to namespace ns
OfNamespace(img, ns) == [tracked |-> ns \in img.memories, rows |-> RowsOf(img.memory_data, ns)]

\* close() ran while the call of t was in progress; no other thread worked on
\* the namespace of the call meanwhile, nothing of that namespace was pending
\* when the call began, and its record can be encoded
ClosedInFlight(t) ==
    /\ "close()" \in overlap[t]
    /\ call[t].ns \notin overlap[t]
    /\ OfNamespace(start[t].view, call[t].ns) = OfNamespace(start[t].disk, call[t].ns)
    /\ ~DumpsRaises(call[t].data)

\* C16 (as claimed): a store, delete or delete_namespace call that was in
\* progress when close() ran either returns with its whole effect committed
\* or raises the closed-connection error with nothing of its effect in the
\* committed image.
C16_CloseInFlight ==
    [][\A t \in Threads :
        (Finishes(t) /\ ClosedInFlight(t)) =>
            IF result'[t].exc = ""
            THEN OfNamespace(AfterCrash', call[t].ns)
                     = OfNamespace(Effect(call[t], start[t].view), call[t].ns)
            ELSE /\ result'[t].exc = ProgrammingError
                 /\ OfNamespace(AfterCrash', call[t].ns)
                        = OfNamespace(start[t].disk, call[t].ns)]_allvars

\* the rows of ns that can be decoded and pass the filters
DecodableMatches(ns, filters) ==
    {i \in DOMAIN memory_data :
        /\ memory_data[i].memory_id = ns
        /\ ~LoadsRaises(memory_data[i].data)
        /\ PassesFilters(deserialize_data(memory_data[i].data), filters)}

\* C17 (as claimed): query(ns, filters) on an open backend raises nothing
\* even when a row of ns holds a payload that cannot be decoded; it skips that
\* row and returns every other row of ns that passes the filters.
C17_QuerySkipsMalformedRows ==
    \A ns \in Namespaces, f \in Filters :
        conn = "open" =>
            \A o \in query(ns, f) :
                /\ o.exc = ""
                /\ \E ord \in Orderings(DecodableMatches(ns, f)) :
                       o.ret = PyList([n \in DOMAIN ord |->
                                          deserialize_data(memory_data[ord[n]].data)])

\* C18 (as claimed): filter_equal(records, field, value) returns, in input
\* order, exactly the records that contain field with a value equal to value;
\* a record without the field is left out whatever the value, None included.
C18_FilterEqualNeedsField ==
    answer.op = "filter_by_field" =>
        answer.ret = SelectSeq(items, LAMBDA item :
                         /\ answer.field \in DOMAIN item.v
                         /\ PyEq(item.v[answer.field], answer.value))

\* the test one filter entry makes on a record: filter_equal keeps the record
KeptBy(item, entry) == filter_by_field(<<item>>, entry[1], entry[2]) = <<item>>

HasStringHit(item, term) ==
    \E f \in DOMAIN item.v :
        /\ item.v[f].t = "str"
        /\ \E k \in 1..(Len(item.v[f].v) + 1) :
               /\ k + Len(term) - 1 <= Len(item.v[f].v)
               /\ \A j \in 1..Len(term) :
                      LowerChar(item.v[f].v[k + j - 1]) = LowerChar(term[j])

\* C20: search_text(records, term) with no fields argument returns, in input
\* order and once per input record, exactly the records that have a
\* string-valued field whose lower-cased value holds the lower-cased term;
\* values that are not strings (numbers, booleans, lists) are not scanned.
C20_SearchDefault ==
    (answer.op = "search_text" /\ answer.fields = PyNone) =>
        answer.ret = SelectSeq(items, LAMBDA item : HasStringHit(item, answer.search_term))

\* C20 witness: the term HI was searched in a list that holds a record with
\* two fields that match (Hi, oHI), one with the text only inside a list, and
\* one with a string that does not match; the first alone is returned, once.
C20_Witness ==
    /\ answer.op = "search_text"
    /\ answer.fields = PyNone
    /\ answer.search_term = <<"H", "I">>
    /\ items = <<eTags, eHi, eHo>>
    /\ answer.ret = <<eHi>>

\* the record has one of the listed fields, and the lower-cased str() text of
\* its value holds the lower-cased term
HasListedHit(item, term, fields) ==
    \E n \in DOMAIN fields :
        /\ fields[n] \in DOMAIN item.v
        /\ LET text == str(item.v[fields[n]])
           IN  \E k \in 1..(Len(text) + 1) :
                   /\ k + Len(term) - 1 <= Len(text)
                   /\ \A j \in 1..Len(term) :
                          LowerChar(text[k + j - 1]) = LowerChar(term[j])

\* C21 (as claimed): search_text(records, term, fields) with a fields list
\* given, the empty list included, returns in input order and once per input
\* record exactly the records that have a listed field whose lower-cased
\* textual form holds the lower-cased term; with the empty list, none.
C21_SearchListedFields ==
    (answer.op = "search_text" /\ answer.fields.t = "list") =>
        answer.ret = SelectSeq(items, LAMBDA item :
                         HasListedHit(item, answer.search_term, answer.fields.v))

HasField(item, field) == field \in DOMAIN item.v

\* strings compare with strings and numbers (int, bool) with numbers
KindOf(x) == IF x.t \in {"int", "bool"} THEN "number" ELSE x.t

\* the values the records hold in the field are all strings or all numbers
ComparableValues(its, field) ==
    \E kind \in {"str", "number"} :
        \A i \in DOMAIN its : HasField(its[i], field) => KindOf(its[i].v[field]) = kind

\* the two records hold equal values in the field
SameValue(x, y, field) ==
    /\ HasField(x, field)
    /\ HasField(y, field)
    /\ ~Lt(x.v[field], y.v[field])
    /\ ~Lt(y.v[field], x.v[field])

\* ret is its rearranged by p, the records that hold the field in the order
\* of their values, the records with equal values in their order in its
StablyOrdered(ret, its, field, descending) ==
    /\ Len(ret) = Len(its)
    /\ \E p \in Permutations(DOMAIN its) :
          /\ \A i \in DOMAIN its : ret[i] = its[p[i]]
          /\ \A i, j \in DOMAIN its :
                (i < j /\ HasField(ret[i], field) /\ HasField(ret[j], field)) =>
                    IF descending
                    THEN ~Lt(ret[i].v[field], ret[j].v[field])
                    ELSE ~Lt(ret[j].v[field], ret[i].v[field])
          /\ \A i, j \in DOMAIN its :
                (i < j /\ SameValue(ret[i], ret[j], field)) => p[i] < p[j]

\* C22 (as claimed): sort_by_field(records, field, descending) is a stable
\* sort: where the values of the field compare with each other (all strings
\* or all numbers) the result is a permutation of the input in which the
\* records are ordered by the field, descending when requested, and records
\* with equal values keep their input order, in both directions.
C22_StableSort ==
    (answer.op = "sort_by_field" /\ ComparableValues(items, answer.field)) =>
        /\ answer.exc = ""
        /\ StablyOrdered(answer.ret, items, answer.field, answer.reverse)

\* the records without the field stand where the lowest value would: in
\* front of every record that holds the field when ascending, behind when
\* descending
MissingLowest(ret, field, descending) ==
    \A i, j \in DOMAIN ret :
        (i < j /\ HasField(ret[i], field) # HasField(ret[j], field)) =>
            IF descending THEN HasField(ret[i], field) ELSE HasField(ret[j], field)

\* C23 (as claimed): in sort_by_field a record that lacks the sort field is
\* ordered as if the field held the lowest value (first when ascending, last
\* when descending) while the records that hold the field are sorted among
\* themselves, whether the values present are strings or numbers, and the
\* call does not raise.
C23_MissingFieldLowest ==
    (answer.op = "sort_by_field" /\ ComparableValues(items, answer.field)) =>
        /\ answer.exc = ""
        /\ MissingLowest(answer.ret, answer.field, answer.reverse)
        /\ StablyOrdered(answer.ret, items, answer.field, answer.reverse)

\* two records of the list hold values of types that do not compare
MixedTypes(its, field) ==
    \E i, j \in DOMAIN its :
        /\ HasField(its[i], field)
        /\ HasField(its[j], field)
        /\ KindOf(its[i].v[field]) # KindOf(its[j].v[field])

\* C24: when the values of the sort field are of types that do not compare
\* with each other, sort_by_field does not raise and returns the whole list
\* in its input order, in both directions.
C24_MixedTypesFallback ==
    (answer.op = "sort_by_field" /\ MixedTypes(items, answer.field)) =>
        /\ answer.exc = ""
        /\ answer.ret = items

\* C24 witness: a list whose roles are Hi, None, ho was sorted by role,
\* descending, and came back as given (Hi in front of ho, None between).
C24_Witness ==
    /\ answer.op = "sort_by_field"
    /\ answer.field = "role"
    /\ answer.reverse
    /\ items = <<eHi, eNone, eLate>>
    /\ MixedTypes(items, "role")
    /\ answer.exc = ""
    /\ answer.ret = <<eHi, eNone, eLate>>

\* C25: for every list and every n >= 0, limit(records, n) returns the first
\* min(n, length) records in their order in the list: the empty list for
\* n = 0 and the whole list for n larger than the list.
C25_Limit ==
    (answer.op = "limit_results" /\ answer.limit >= 0) =>
        /\ Len(answer.ret) = (IF answer.limit < Len(items) THEN answer.limit ELSE Len(items))
        /\ \A i \in DOMAIN answer.ret : answer.ret[i] = items[i]
        /\ answer.limit = 0 => answer.ret = <<>>
        /\ answer.limit > Len(items) => answer.ret = items

\* C25 witness: the first two of three records were asked for and returned.
C25_Witness ==
    /\ answer.op = "limit_results"
    /\ answer.limit = 2
    /\ items = <<eHo, eHi, eTags>>
    /\ answer.ret = <<eHo, eHi>>

\* every record holds the field, and the values compare and differ two by two
DistinctComparable(its, field) ==
    /\ \A i \in DOMAIN its : HasField(its[i], field)
    /\ ComparableValues(its, field)
    /\ \A i, j \in DOMAIN its : i # j => ~SameValue(its[i], its[j], field)

\* C26: most_recent(records, timestamp_field, n) equals
\* limit(sort_by_field(records, timestamp_field, descending), n); for records
\* with distinct comparable timestamps and n >= 0 it is the min(n, length)
\* records with the greatest timestamps, greatest first, the same for every
\* order of the input.
C26_MostRecent ==
    (answer.op = "get_recent" /\ answer.limit >= 0) =>
        /\ answer.exc = ""
        /\ answer.ret = limit_results(sort_by_field(items, answer.timestamp_field, TRUE).ret,
                                      answer.limit)
        /\ DistinctComparable(items, answer.timestamp_field) =>
              /\ Len(answer.ret) = (IF answer.limit < Len(items) THEN answer.limit
                                                                 ELSE Len(items))
              /\ \A i \in DOMAIN answer.ret : \E j \in DOMAIN items : answer.ret[i] = items[j]
              /\ \A i, j \in DOMAIN answer.ret :
                    i < j => Lt(answer.ret[j].v[answer.timestamp_field],
                                answer.ret[i].v[answer.timestamp_field])
              /\ \A j \in DOMAIN items :
                    (\A i \in DOMAIN answer.ret : answer.ret[i] # items[j]) =>
                        \A i \in DOMAIN answer.ret :
                            Lt(items[j].v[answer.timestamp_field],
                               answer.ret[i].v[answer.timestamp_field])
              /\ \A p \in Permutations(DOMAIN items) :
                    get_recent([i \in DOMAIN items |-> items[p[i]]],
                               answer.timestamp_field, answer.limit).ret = answer.ret

\* C26 witness: records with n = 2, 3, 1 were given and the two most recent
\* by n asked for: the record with 3, then the record with 2.
C26_Witness ==
    /\ answer.op = "get_recent"
    /\ answer.timestamp_field = "n"
    /\ answer.limit = 2
    /\ items = <<eTags, eLate, eHi>>
    /\ DistinctComparable(items, "n")
    /\ answer.ret = <<eLate, eTags>>

\* built from the value kinds the codec supports, a tuple being an ordered
\* sequence as a list is
RECURSIVE SupportedKinds(_)
SupportedKinds(x) ==
    CASE x.t \in {"str", "int", "bool", "NoneType"} -> TRUE
      [] x.t \in {"list", "tuple"} -> \A i \in DOMAIN x.v : SupportedKinds(x.v[i])
      [] x.t = "dict" -> \A k \in DOMAIN x.v : SupportedKinds(x.v[k])
      [] OTHER -> FALSE

\* structural equality: the same scalars (type and value), the same keys in
\* the mappings, the same elements in the same order in the sequences
RECURSIVE StructEq(_, _)
StructEq(a, b) ==
    CASE a.t \in {"str", "int", "bool", "NoneType"} -> a = b
      [] a.t \in {"list", "tuple"} ->
            /\ b.t \in {"list", "tuple"}
            /\ Len(a.v) = Len(b.v)
            /\ \A i \in DOMAIN a.v : StructEq(a.v[i], b.v[i])
      [] a.t = "dict" ->
            /\ b.t = "dict"
            /\ DOMAIN a.v = DOMAIN b.v
            /\ \A k \in DOMAIN a.v : StructEq(a.v[k], b.v[k])
      [] OTHER -> FALSE

\* C27: for every record built from the supported value kinds (string,
\* number, boolean, null, nested mapping with string keys, ordered sequence)
\* decode(encode(r)) is structurally equal to r, sequence elements in their
\* order (and is r itself when its sequences are lists), and retrieve after
\* store returns that record.
C27_RoundTrip ==
    \A p \in Pairs :
        (conn = "open" /\ given[p] # PyNone /\ SupportedKinds(given[p])) =>
            /\ StructEq(deserialize_data(serialize_data(given[p])), given[p])
            /\ IsJsonKind(given[p]) => deserialize_data(serialize_data(given[p])) = given[p]
            /\ retrieve(p[1], p[2]).exc = ""
            /\ StructEq(retrieve(p[1], p[2]).ret, given[p])
            /\ IsJsonKind(given[p]) => retrieve(p[1], p[2]).ret = given[p]

\* C27 witness: a record with a nested mapping that holds the list [True, 1]
\* was stored, and retrieve returns it with True and 1 in their places.
C27_Witness ==
    /\ last.op = "store"
    /\ last.exc = ""
    /\ given[<<"x", "a">>] =
           PyDict([content |-> PyDict([k |-> PyList(<<PyBool(TRUE), PyInt(1)>>)])])
    /\ retrieve("x", "a") = Outcome("", given[<<"x", "a">>])

\* the keys stored in the memory type and not deleted since
StoredIn(memory_type) ==
    {p[2] : p \in {q \in FacadePairs : q[1] = memory_type /\ given[q] # PyNone}}

\* the record holds every filter entry: the field, with an equal value
SatisfiesAll(record, filters) ==
    \A i \in DOMAIN filters : HasPair(record, filters[i][1], filters[i][2])

\* the text search of the memory type finds the term in the record
TextHit(memory_type, record, term) ==
    IF memory_type = "semantic"
    THEN HasListedHit(record, term, <<"title", "content", "tags">>)
    ELSE HasStringHit(record, term)

\* the keys of the records a query of the memory type is to return
Wanted(memory_type, search_query, filters) ==
    {k \in StoredIn(memory_type) :
        /\ SatisfiesAll(given[<<memory_type, k>>], filters)
        /\ (search_query # PyNone /\ search_query.v # <<>>) =>
               TextHit(memory_type, given[<<memory_type, k>>], search_query.v)}

\* C28 (as claimed): on an open backend the facade query on a memory type
\* returns exactly the stored, not deleted records of that type that satisfy
\* every keyword filter and, when a search text is given, the text search;
\* for short_term and episodic the result is ordered by timestamp, most
\* recent first.
C28_FacadeQuery ==
    conn = "open" =>
        \A memory_type \in MemoryTypeNames, search_query \in FacadeSearches,
           filters \in FacadeFilters :
            \A o \in MMQuery(memory_type, search_query, filters) :
                /\ o.exc = ""
                /\ \E keys \in Orderings(Wanted(memory_type, search_query, filters)) :
                       o.ret = PyList([i \in DOMAIN keys |-> given[<<memory_type, keys[i]>>]])
                /\ SortsByTimestamp(memory_type) =>
                       \A i, j \in DOMAIN o.ret.v :
                           i < j => ~Lt(o.ret.v[i].v["timestamp"], o.ret.v[j].v["timestamp"])

\* the rows of the memory type in a table
RowsIn(rows, memory_type) ==
    Cardinality({i \in DOMAIN rows : rows[i].memory_id = memory_type})

\* count and list_all agree with the keys stored and not deleted since
CountIsStoredKeys ==
    conn = "open" =>
        \A memory_type \in MemoryTypeNames :
            /\ MMCount(memory_type) = Outcome("", PyInt(Cardinality(StoredIn(memory_type))))
            /\ \A o \in MMListAll(memory_type) :
                  /\ o.exc = ""
                  /\ Len(o.ret.v) = MMCount(memory_type).ret.v
                  /\ {o.ret.v[i].v : i \in DOMAIN o.ret.v} = StoredIn(memory_type)

\* a store on a key that is in use leaves the count as it is, and a clear
\* brings it to 0
CountStep ==
    /\ (last'.op = "store" /\ last'.exc = "" /\ given[<<last'.ns, last'.key>>] # PyNone) =>
           RowsIn(memory_data', last'.ns) = RowsIn(memory_data, last'.ns)
    /\ (last'.op = "store" /\ last'.exc = "" /\ given[<<last'.ns, last'.key>>] = PyNone) =>
           RowsIn(memory_data', last'.ns) = RowsIn(memory_data, last'.ns) + 1
    /\ (last'.op = "delete_memory" /\ last'.exc = "") =>
           RowsIn(memory_data', last'.ns) = 0

\* C29: count(ns) equals the length of list_keys(ns), which after any
\* sequence of store, delete and clear calls is the number of distinct keys
\* stored in ns and not deleted since; storing a key that is in use does not
\* increase it and clear(ns) brings it to 0.
C29_Count == [](CountIsStoredKeys) /\ [][CountStep]_allvars

\* C29 witness: two keys were stored in short_term and one of them deleted:
\* count is 1 and list_all holds the other key.
C29_Witness ==
    /\ last = Returned("delete", "short_term", <<"a">>, PyBool(TRUE))
    /\ StoredIn("short_term") = {<<"b">>}
    /\ MMCount("short_term") = Outcome("", PyInt(1))
    /\ MMListAll("short_term") = {Outcome("", PyList(<<KeyB>>))}

RaisesValueError == Outcome(ValueError, PyNone)

\* the reads of the facade raise ValueError on a memory type that is not one
\* of the four
InvalidTypeReads ==
    \A memory_type \in InvalidTypes :
        /\ \A key \in FacadeKeys : MMRetrieve(memory_type, key) = RaisesValueError
        /\ \A search_query \in FacadeSearches, filters \in FacadeFilters :
               MMQuery(memory_type, search_query, filters) = {RaisesValueError}
        /\ \A limit \in Limits : MMGetRecent(memory_type, limit) = {RaisesValueError}
        /\ MMCount(memory_type) = RaisesValueError
        /\ MMListAll(memory_type) = {RaisesValueError}

\* store, delete and clear raise ValueError on such a type and change no table
InvalidTypeWrites ==
    (last'.op \in {"store", "delete", "clear"} /\ last'.ns \in InvalidTypes) =>
        /\ last'.exc = ValueError
        /\ UNCHANGED <<memories, memory_data, committed>>

\* C30 (as claimed): MemoryManager.store, retrieve, query, get_recent, delete,
\* clear, count and list_all called with a memory type that is not one of
\* short_term, long_term, episodic, semantic raise ValueError and leave the
\* stored records of every namespace unchanged.
C30_InvalidMemoryType == [](InvalidTypeReads) /\ [][InvalidTypeWrites]_allvars


\* the record the facade store works on: a str becomes {"content": data}
\* (as the argument of the store method of the memory type)
CallerRecord(data) == IF data.t = "str" THEN PyDict([content |-> data]) ELSE data

\* the fields the store method of a memory type gives a default
DefaultFields(memory_type) ==
    {"timestamp", "memory_type"} \cup
        (CASE memory_type = "long_term" -> {"category"}
           [] memory_type = "episodic" -> {"episode_id"}
           [] memory_type = "semantic" -> {"tags"}
           [] OTHER -> {})

\* stored holds every field of the caller's record with the caller's value,
\* and beside them the default fields the caller's record lacks, and no other
Injected(memory_type, caller, stored) ==
    /\ \A f \in DOMAIN caller.v : f \in DOMAIN stored.v /\ stored.v[f] = caller.v[f]
    /\ DOMAIN stored.v = DOMAIN caller.v \cup DefaultFields(memory_type)

\* caller's records that supply the default fields themselves, each with a
\* value no default has, and records that lack them
SuppliedData ==
    FacadeData \cup
    {PyDict([timestamp |-> PyNone, memory_type |-> Hi]),
     PyDict([category |-> Hi, episode_id |-> PyInt(1), tags |-> PyList(<<Hi>>)]),
     PyDict([timestamp |-> PyStr(<<"9", "9">>), memory_type |-> PyNone, category |-> PyNone,
             episode_id |-> PyNone, tags |-> PyNone])}

\* the record handed to storage, for every memory type, key and caller's record
InjectionKeepsSupplied ==
    \A memory_type \in MemoryTypeNames, key \in FacadeKeys, data \in SuppliedData :
        Injected(memory_type, CallerRecord(data),
                 WithDefaults(memory_type, key.v, CallerRecord(data)))

\* a facade store that returns: the row it wrote decodes to the caller's
\* record with the missing defaults added
InjectionStored ==
    (last'.op = "store" /\ last'.exc = "") =>
        \A data \in FacadeData :
            given'[<<last'.ns, last'.key>>] = WithDefaults(last'.ns, last'.key, CallerRecord(data)) =>
                Injected(last'.ns, CallerRecord(data),
                         deserialize_data(RowAt(memory_data', last'.ns, last'.key).data))

\* C31: default-field injection on a facade store never overrides a field
\* supplied by the caller: the stored record contains every caller-supplied
\* field with its original value, and timestamp, memory_type and the per-type
\* default (category, episode_id, tags) are added only when the caller's
\* record lacks that field.
C31_DefaultInjection == [](InjectionKeepsSupplied) /\ [][InjectionStored]_allvars

\* C31 witness: a record that supplies its timestamp and no category was
\* stored in long_term: the row keeps the caller's timestamp and title and
\* has the category and memory_type defaults.
C31_Witness ==
    /\ last = Returned("store", "long_term", <<"a">>, PyNone)
    /\ retrieve("long_term", <<"a">>) =
           Outcome("", PyDict([title |-> Hi, timestamp |-> PyStr(<<"9", "9">>),
                               memory_type |-> PyStr(TypeText["long_term"]),
                               category |-> PyStr(<<"g", "e", "n", "e", "r", "a", "l">>)]))


\* a facade store without a key that returns: the key it returns is the one
\* generated from the count before the call (the keys given by the callers
\* are not of that form)
AutoKeyedStore ==
    /\ last'.op = "store" /\ last'.exc = ""
    /\ last'.key = GeneratedKey(last'.ns)

\* the data of the call is retrievable under the returned key
AutoKeyRetrievable ==
    AutoKeyedStore =>
        /\ HasRow(memory_data', last'.ns, last'.key)
        /\ deserialize_data(RowAt(memory_data', last'.ns, last'.key).data)
               = given'[<<last'.ns, last'.key>>]

\* the returned key was not in use, so no record is replaced and the count
\* of the memory type grows by one
AutoKeyFresh ==
    AutoKeyedStore =>
        /\ ~HasRow(memory_data, last'.ns, last'.key)
        /\ \A i \in DOMAIN memory_data : memory_data'[i] = memory_data[i]
        /\ RowsIn(memory_data', last'.ns) = RowsIn(memory_data, last'.ns) + 1

\* C32 (as claimed): MemoryManager.store called without a key returns a
\* generated key under which the stored data is retrievable, and that key was
\* not in use in the namespace before the call, so after any sequence of
\* stores and deletes an auto-keyed store never replaces an existing record
\* and always increases count by one.
C32_AutoKeyFresh == [][AutoKeyRetrievable /\ AutoKeyFresh]_allvars


\* the keys of the stored episodes whose timestamp lies in [start, end]
InRange(start_date, end_date) ==
    {k \in StoredIn("episodic") :
        LET t == given[<<"episodic", k>>].v["timestamp"]
        IN  t.t = "str" /\ StrLe(start_date, t.v) /\ StrLe(t.v, end_date)}

\* C33 (as claimed): EpisodicMemory.get_by_date_range(start, end) returns
\* exactly the stored episodes whose timestamp t satisfies start <= t <= end
\* (both bounds inclusive), ordered most recent first; episodes outside the
\* range are excluded.
C33_DateRange ==
    conn = "open" =>
        \A start_date \in Dates, end_date \in Dates :
            \A o \in get_by_date_range(start_date, end_date) :
                /\ o.exc = ""
                /\ \E keys \in Orderings(InRange(start_date, end_date)) :
                       o.ret = PyList([i \in DOMAIN keys |-> given[<<"episodic", keys[i]>>]])
                /\ \A i, j \in DOMAIN o.ret.v :
                       i < j => ~StrLt(o.ret.v[i].v["timestamp"].v, o.ret.v[j].v["timestamp"].v)


\* C34 (as claimed): referential integrity: in every reachable state, under
\* every interleaving of store, delete and delete_memory calls from several
\* threads on one backend instance, every namespace that has at least one row
\* in memory_data also has a tracking entry in memories, i.e. list_keys(ns)
\* non-empty implies ns is in list_memories.
C34_ReferentialIntegrity ==
    \A ns \in Namespaces :
        RowsOf(memory_data, ns) # <<>> => ns \in memories


\* a store that raises because the record cannot be encoded changes neither
\* table and leaves no transaction open that was not open before
FailedStoreNoEffect ==
    (last'.op = "store" /\ last'.exc = ValueError) =>
        UNCHANGED <<memories, memory_data, in_transaction, committed>>

\* a namespace gets a tracking entry or a row, on the connection and in the
\* committed image, only in a store on that namespace that returns
GainedOnlyByStore ==
    \A ns \in Namespaces :
        (\/ ns \in memories' \ memories
         \/ ns \in committed'.memories \ committed.memories
         \/ Len(RowsOf(memory_data', ns)) > Len(RowsOf(memory_data, ns))
         \/ Len(RowsOf(committed'.memory_data, ns)) > Len(RowsOf(committed.memory_data, ns)))
            => last' = Returned("store", ns, last'.key, PyNone)

\* C35 (as claimed): a store(ns, k, r) that fails because the record cannot
\* be encoded has no effect at all: it leaves no uncommitted change pending
\* on the connection, so neither at that moment nor after any later
\* successful operation on the backend does ns appear in list_memories or
\* gain a row because of the failed call.
C35_FailedStoreNoEffect == [][FailedStoreNoEffect /\ GainedOnlyByStore]_allvars


\* the records the memory type held when the read of thread t began
PresentAtStart(t) ==
    {deserialize_data(start[t].view.memory_data[i].data) :
        i \in {j \in DOMAIN start[t].view.memory_data :
                  start[t].view.memory_data[j].memory_id = call[t].ns}}

\* the read of thread t returns with this step
ReadReturns(t) == pc[t] = "read_finish" /\ pc'[t] = "idle"

ReadSeesRecords ==
    \A t \in Threads :
        ReadReturns(t) =>
            /\ result'[t].exc = ""
            /\ \A i \in DOMAIN result'[t].ret.v :
                  /\ result'[t].ret.v[i] # PyNone
                  /\ result'[t].ret.v[i] \in PresentAtStart(t)

\* C36 (as claimed): a facade read (query, get_recent) that runs concurrently
\* with delete or clear on the same namespace never raises and never returns
\* an absent (None) entry: its result contains only records that were
\* present at some point during the call, although it reads list_keys once
\* and then retrieves each key twice.
C36_ConcurrentRead == [][ReadSeesRecords]_allvars

====
